---- MODULE Spec2Model ----
(***************************************************************************)
(* State-machine model of the endless-runner simulation core:              *)
(*   - the zustand store (src/store.ts): progression state and its ops,    *)
(*   - the Player component's damage handler and invincibility window      *)
(*     (src/components/World/Player.tsx),                                  *)
(*   - the LevelManager component's per-frame tick and its reset/level-up  *)
(*     effect (src/components/World/LevelManager.tsx).                     *)
(*                                                                         *)
(* Numbers.  The code computes in IEEE doubles; the model uses fixed point *)
(* with two decimals: seconds, world units and units/second are integers   *)
(* in hundredths (Scale).  Date.now() milliseconds are kept in the same    *)
(* time unit (1500 ms = 150).  speed * 0.05 is rounded down to 1/100.      *)
(*                                                                         *)
(* collectedLetters is an array in the code, read only through includes()  *)
(* and length; it is modelled as a bag (index -> number of occurrences),   *)
(* which keeps duplicates observable and drops only the order.             *)
(*                                                                         *)
(* The store actions setStatus, setDistance, addScore and increaseLevel    *)
(* have no caller anywhere in the sources and are not modelled.            *)
(***************************************************************************)
EXTENDS Integers, Sequences, FiniteSets, Bags, TLC

VARIABLES
  store,               \* the zustand state object (store.ts:61-78)
  pendingExpiry,       \* due times of armed setTimeout callbacks (store.ts:225)
  staleExpiry,         \* history: those of them armed before the latest startGame
  player,              \* Player.tsx: the lane state, the jump and damage refs
  objects,             \* LevelManager objectsRef.current
  prevStatus,          \* LevelManager prevStatus.current
  prevLevel,           \* LevelManager prevLevel.current
  distanceTraveled,    \* LevelManager distanceTraveled.current
  nextLetterDistance,  \* LevelManager nextLetterDistance.current
  now,                 \* Date.now()
  frames,              \* number of frames rendered so far
  shopItems,           \* ShopScreen items state (ids); empty while unmounted
  log                  \* store operations performed by the last handler, in order

vars == <<store, pendingExpiry, staleExpiry, player, objects, prevStatus, prevLevel,
          distanceTraveled, nextLetterDistance, now, frames, shopItems, log>>

lmVars == <<objects, prevStatus, prevLevel, distanceTraveled, nextLetterDistance>>

----------------------------------------------------------------------------
(* Fixed point *)

Scale == 10 * 10

----------------------------------------------------------------------------
(* types.ts *)

MENU == "MENU"
PLAYING == "PLAYING"
SHOP == "SHOP"
GAME_OVER == "GAME_OVER"
VICTORY == "VICTORY"

GameStatus == {MENU, PLAYING, SHOP, GAME_OVER, VICTORY}

EASY == "BEGINNER"
MEDIUM == "INTERMEDIATE"
HARD == "ADVANCED"

Difficulty == {EASY, MEDIUM, HARD}

----------------------------------------------------------------------------
(* store.ts *)

GEMINI_TARGET == <<"G", "E", "M", "I", "N", "I">>

MAX_LEVEL == 3

LetterIndices == 0 .. (Len(GEMINI_TARGET) - 1)

DIFFICULTY_SETTINGS(diff) ==
  CASE diff = EASY   -> [speed |-> 20 * Scale, time |-> 90 * Scale, lanes |-> 3]
    [] diff = MEDIUM -> [speed |-> 30 * Scale, time |-> 60 * Scale, lanes |-> 3]
    [] diff = HARD   -> [speed |-> 45 * Scale, time |-> 45 * Scale, lanes |-> 5]

InitialStore ==
  [ status |-> MENU,
    score |-> 0,
    lives |-> 3,
    maxLives |-> 3,
    speed |-> 0,
    collectedLetters |-> EmptyBag,
    level |-> 1,
    laneCount |-> 3,
    gemsCollected |-> 0,
    distance |-> 0,
    difficulty |-> EASY,
    timeLeft |-> 60 * Scale,
    maxTime |-> 60 * Scale,
    hasDoubleJump |-> FALSE,
    hasImmortality |-> FALSE,
    isImmortalityActive |-> FALSE ]

Min(a, b) == IF a < b THEN a ELSE b

Max(a, b) == IF a > b THEN a ELSE b

Floor(t) == t \div Scale

startGameKeepingShield(s, diff) ==
  LET settings == DIFFICULTY_SETTINGS(diff) IN
  [ s EXCEPT
      !.status = PLAYING,
      !.score = 0,
      !.lives = 3,
      !.maxLives = 3,
      !.speed = settings.speed,
      !.timeLeft = settings.time,
      !.maxTime = settings.time,
      !.collectedLetters = EmptyBag,
      !.level = 1,
      !.laneCount = settings.lanes,
      !.gemsCollected = 0,
      !.distance = 0,
      !.difficulty = diff,
      !.hasDoubleJump = FALSE,
      !.hasImmortality = FALSE ]

startGameKeepingLifeSlots(s, diff) ==
  LET settings == DIFFICULTY_SETTINGS(diff) IN
  [ s EXCEPT
      !.status = PLAYING,
      !.score = 0,
      !.lives = 3,
      !.speed = settings.speed,
      !.timeLeft = settings.time,
      !.maxTime = settings.time,
      !.collectedLetters = EmptyBag,
      !.level = 1,
      !.laneCount = settings.lanes,
      !.gemsCollected = 0,
      !.distance = 0,
      !.difficulty = diff,
      !.hasDoubleJump = FALSE,
      !.hasImmortality = FALSE,
      !.isImmortalityActive = FALSE ]

startGame(s, diff) ==
  LET settings == DIFFICULTY_SETTINGS(diff) IN
  [ s EXCEPT
      !.status = PLAYING,
      !.score = 0,
      !.lives = 3,
      !.maxLives = 3,
      !.speed = settings.speed,
      !.timeLeft = settings.time,
      !.maxTime = settings.time,
      !.collectedLetters = EmptyBag,
      !.level = 1,
      !.laneCount = settings.lanes,
      !.gemsCollected = 0,
      !.distance = 0,
      !.difficulty = diff,
      !.hasDoubleJump = FALSE,
      !.hasImmortality = FALSE,
      !.isImmortalityActive = FALSE ]

restartGame(s) == startGame(s, s.difficulty)

decrementTimerWithoutGameOver(s, delta) ==
  IF s.status # PLAYING THEN s
  ELSE [s EXCEPT !.timeLeft = Max(s.timeLeft - delta, 0)]

decrementTimerStopped(s, delta) == s

decrementTimerStrictlyBelow(s, delta) ==
  IF s.status # PLAYING THEN s
  ELSE LET newTime == s.timeLeft - delta IN
       IF newTime < 0
       THEN [s EXCEPT !.timeLeft = 0, !.status = GAME_OVER, !.speed = 0]
       ELSE [s EXCEPT !.timeLeft = newTime]

decrementTimer(s, delta) ==
  IF s.status # PLAYING THEN s
  ELSE LET newTime == s.timeLeft - delta IN
       IF newTime <= 0
       THEN [s EXCEPT !.timeLeft = 0, !.status = GAME_OVER, !.speed = 0]
       ELSE [s EXCEPT !.timeLeft = newTime]

takeDamageSlowing(s) ==
  IF s.isImmortalityActive THEN s
  ELSE IF s.lives > 1
       THEN [s EXCEPT !.lives = s.lives - 1, !.speed = s.speed \div 2]
       ELSE [s EXCEPT !.lives = 0, !.status = GAME_OVER, !.speed = 0]

takeDamageLateGameOver(s) ==
  IF s.isImmortalityActive THEN s
  ELSE IF s.lives > 0
       THEN [s EXCEPT !.lives = s.lives - 1]
       ELSE [s EXCEPT !.lives = 0, !.status = GAME_OVER, !.speed = 0]

takeDamageUnshielded(s) ==
  IF s.lives > 1
  THEN [s EXCEPT !.lives = s.lives - 1]
  ELSE [s EXCEPT !.lives = 0, !.status = GAME_OVER, !.speed = 0]

takeDamage(s) ==
  IF s.isImmortalityActive THEN s
  ELSE IF s.lives > 1
       THEN [s EXCEPT !.lives = s.lives - 1]
       ELSE [s EXCEPT !.lives = 0, !.status = GAME_OVER, !.speed = 0]

collectGem(s, value) ==
  [s EXCEPT !.score = s.score + value, !.gemsCollected = s.gemsCollected + 1]

advanceLevelCappedAtSeven(s) ==
  [ s EXCEPT
      !.level = s.level + 1,
      !.laneCount = Min(s.laneCount + 2, 7),
      !.status = PLAYING,
      !.speed = s.speed + 10 * Scale,
      !.timeLeft = s.timeLeft + 30 * Scale,
      !.collectedLetters = EmptyBag ]

advanceLevelKeepingLetters(s) ==
  [ s EXCEPT
      !.level = s.level + 1,
      !.laneCount = Min(s.laneCount + 2, 9),
      !.status = PLAYING,
      !.speed = s.speed + 10 * Scale,
      !.timeLeft = s.timeLeft + 30 * Scale ]

advanceLevel(s) ==
  LET nextLevel == s.level + 1
      speedIncrease == 10 * Scale
      newSpeed == s.speed + speedIncrease
      timeRefill == 30 * Scale
  IN [ s EXCEPT
         !.level = nextLevel,
         !.laneCount = Min(s.laneCount + 2, 9),
         !.status = PLAYING,
         !.speed = newSpeed,
         !.timeLeft = s.timeLeft + timeRefill,
         !.collectedLetters = EmptyBag ]

collectLetterWithoutAdvance(s, index) ==
  IF BagIn(index, s.collectedLetters) THEN s
  ELSE [ s EXCEPT
           !.collectedLetters = s.collectedLetters (+) SetToBag({index}),
           !.speed = s.speed + (s.speed * 5) \div 100,
           !.timeLeft = s.timeLeft + 5 * Scale ]

collectLetterWithoutIncludes(s, index) ==
  LET newLetters == s.collectedLetters (+) SetToBag({index})
      s1 == [ s EXCEPT
                !.collectedLetters = newLetters,
                !.speed = s.speed + (s.speed * 5) \div 100,
                !.timeLeft = s.timeLeft + 5 * Scale ]
  IN IF BagCardinality(newLetters) = Len(GEMINI_TARGET)
     THEN IF s.level < MAX_LEVEL
          THEN advanceLevel(s1)
          ELSE [ s1 EXCEPT
                   !.status = VICTORY,
                   !.score = s1.score + 5000 + (Floor(s.timeLeft) * 100) ]
     ELSE s1

collectLetter(s, index) ==
  IF BagIn(index, s.collectedLetters) THEN s
  ELSE
    LET newLetters == s.collectedLetters (+) SetToBag({index})
        timeBonus == 5 * Scale
        speedIncrease == (s.speed * 5) \div 100
        nextSpeed == s.speed + speedIncrease
        s1 == [ s EXCEPT
                  !.collectedLetters = newLetters,
                  !.speed = nextSpeed,
                  !.timeLeft = s.timeLeft + timeBonus ]
    IN IF BagCardinality(newLetters) = Len(GEMINI_TARGET)
       THEN IF s.level < MAX_LEVEL
            THEN advanceLevel(s1)
            ELSE [ s1 EXCEPT
                     !.status = VICTORY,
                     !.score = s1.score + 5000 + (Floor(s.timeLeft) * 100) ]
       ELSE s1

openShop(s) == [s EXCEPT !.status = SHOP]

closeShop(s) == [s EXCEPT !.status = PLAYING]

buyItemEffectUnpaid(s, type, cost) ==
  LET s1 == IF s.score >= cost THEN [s EXCEPT !.score = s.score - cost] ELSE s IN
  CASE type = "DOUBLE_JUMP" -> [s1 EXCEPT !.hasDoubleJump = TRUE]
    [] type = "MAX_LIFE" -> [s1 EXCEPT !.maxLives = s.maxLives + 1, !.lives = s.lives + 1]
    [] type = "HEAL" -> [s1 EXCEPT !.lives = Min(s.lives + 1, s.maxLives)]
    [] type = "IMMORTAL" -> [s1 EXCEPT !.hasImmortality = TRUE]

buyItemStrictlyAbove(s, type, cost) ==
  IF s.score > cost
  THEN LET s1 == [s EXCEPT !.score = s.score - cost] IN
       CASE type = "DOUBLE_JUMP" -> [s1 EXCEPT !.hasDoubleJump = TRUE]
         [] type = "MAX_LIFE" -> [s1 EXCEPT !.maxLives = s.maxLives + 1, !.lives = s.lives + 1]
         [] type = "HEAL" -> [s1 EXCEPT !.lives = Min(s.lives + 1, s.maxLives)]
         [] type = "IMMORTAL" -> [s1 EXCEPT !.hasImmortality = TRUE]
  ELSE s

buyItemHealUnclamped(s, type, cost) ==
  IF s.score >= cost
  THEN LET s1 == [s EXCEPT !.score = s.score - cost] IN
       CASE type = "DOUBLE_JUMP" -> [s1 EXCEPT !.hasDoubleJump = TRUE]
         [] type = "MAX_LIFE" -> [s1 EXCEPT !.maxLives = s.maxLives + 1, !.lives = s.lives + 1]
         [] type = "HEAL" -> [s1 EXCEPT !.lives = s.lives + 1]
         [] type = "IMMORTAL" -> [s1 EXCEPT !.hasImmortality = TRUE]
  ELSE s

buyItem(s, type, cost) ==
  IF s.score >= cost
  THEN LET s1 == [s EXCEPT !.score = s.score - cost] IN
       CASE type = "DOUBLE_JUMP" -> [s1 EXCEPT !.hasDoubleJump = TRUE]
         [] type = "MAX_LIFE" -> [s1 EXCEPT !.maxLives = s.maxLives + 1, !.lives = s.lives + 1]
         [] type = "HEAL" -> [s1 EXCEPT !.lives = Min(s.lives + 1, s.maxLives)]
         [] type = "IMMORTAL" -> [s1 EXCEPT !.hasImmortality = TRUE]
  ELSE s

buyItemResult(s, type, cost) == s.score >= cost

(* store.ts:221-229.  The setTimeout callback is armed only when the guard   *)
(* passes; the due time is Date.now() + 5000 ms.                             *)
IMMORTALITY_MS == 5 * Scale

activateImmortalityArmsWhileActive(s) == s.hasImmortality

activateImmortalityArms(s) == s.hasImmortality /\ ~s.isImmortalityActive

activateImmortality(s) ==
  IF activateImmortalityArms(s) THEN [s EXCEPT !.isImmortalityActive = TRUE] ELSE s

immortalityTimeoutKeepingShield(s) == s

immortalityTimeout(s) == [s EXCEPT !.isImmortalityActive = FALSE]

----------------------------------------------------------------------------
(* A handler's run: the store, the Player refs it touches and the list of   *)
(* store operations it has performed so far.                                 *)

Entry(op, arg, c, s2) ==
  [ op |-> op, arg |-> arg, pre |-> c.store, post |-> s2,
    inv |-> c.player.isInvincible, since |-> c.now - c.player.lastDamageTime ]

Do(c, op, arg, s2) ==
  [c EXCEPT !.store = s2, !.log = Append(c.log, Entry(op, arg, c, s2))]

Ctx(t) == [store |-> store, player |-> player, log |-> <<>>, now |-> t]

----------------------------------------------------------------------------
(* Player.tsx *)

INVINCIBLE_MS == (15 * Scale) \div 10

GRAVITY == 60 * Scale
JUMP_FORCE == 18 * Scale

(* Player.tsx:37-50: lane is React state; y is groupRef.current.position.y; *)
(* the others are refs.                                                      *)
InitialPlayer ==
  [ lane |-> 0, y |-> 0, velocityY |-> 0, isJumping |-> FALSE, jumpsPerformed |-> 0,
    isInvincible |-> FALSE, lastDamageTime |-> 0 ]

(* Player.tsx:113, 141: Math.floor(laneCount / 2) *)
maxLane(laneCount) == laneCount \div 2

(* Player.tsx:115: setLane(l => Math.max(l - 1, -maxLane)) *)
laneLeft(p, laneCount) ==
  [p EXCEPT !.lane = IF @ - 1 > -maxLane(laneCount) THEN @ - 1 ELSE -maxLane(laneCount)]

(* Player.tsx:116: setLane(l => Math.min(l + 1, maxLane)) *)
laneRight(p, laneCount) ==
  [p EXCEPT !.lane = IF @ + 1 < maxLane(laneCount) THEN @ + 1 ELSE maxLane(laneCount)]

triggerJumpUnlimited(p, hasDoubleJump) ==
  IF ~p.isJumping
  THEN [p EXCEPT !.isJumping = TRUE, !.jumpsPerformed = 1, !.velocityY = JUMP_FORCE]
  ELSE [p EXCEPT !.jumpsPerformed = @ + 1, !.velocityY = JUMP_FORCE]

(* Player.tsx:93-108 *)
triggerJump(p, hasDoubleJump) ==
  LET maxJumps == IF hasDoubleJump THEN 2 ELSE 1
  IN IF ~p.isJumping
     THEN [p EXCEPT !.isJumping = TRUE, !.jumpsPerformed = 1, !.velocityY = JUMP_FORCE]
     ELSE IF p.jumpsPerformed < maxJumps
          THEN [p EXCEPT !.jumpsPerformed = @ + 1, !.velocityY = JUMP_FORCE]
          ELSE p

(* Player.tsx:158-183: the frame callback's jump physics, on the frame's    *)
(* own delta.                                                                *)
playerJump(p, status, delta) ==
  IF status # PLAYING /\ status # SHOP THEN p
  ELSE IF ~p.isJumping THEN p
  ELSE LET y2 == p.y + (p.velocityY * delta) \div Scale
           v2 == p.velocityY - (GRAVITY * delta) \div Scale
       IN IF y2 <= 0
          THEN [p EXCEPT !.y = 0, !.isJumping = FALSE, !.jumpsPerformed = 0,
                         !.velocityY = 0]
          ELSE [p EXCEPT !.y = y2, !.velocityY = v2]

(* Player.tsx:74-83: the effect on [status].                                 *)
resetEffect(p, rendered, status) ==
  IF status # rendered /\ status = PLAYING
  THEN [p EXCEPT !.isJumping = FALSE, !.jumpsPerformed = 0, !.velocityY = 0, !.y = 0]
  ELSE p

clampEffectSkipped(p, laneCount) == p

(* Player.tsx:85-90: the effect on [laneCount, lane]; its setLane renders   *)
(* again before anything else runs.                                          *)
clampEffect(p, laneCount) ==
  IF (IF p.lane < 0 THEN -p.lane ELSE p.lane) > maxLane(laneCount)
  THEN [p EXCEPT !.lane = IF @ > maxLane(laneCount) THEN maxLane(laneCount)
                          ELSE IF @ < -maxLane(laneCount) THEN -maxLane(laneCount)
                          ELSE @]
  ELSE p

(* The Player's effects at a commit: rendered is the status of the render   *)
(* before it.                                                                *)
playerEffects(p, rendered, s) ==
  clampEffect(resetEffect(p, rendered, s.status), s.laneCount)

(* Player.tsx:246-252, the 'player-hit' listener.  dispatchEvent runs it     *)
(* synchronously inside the tick.  Its isImmortalityActive is the rendered   *)
(* value, which equals the store's: nothing inside a frame changes the flag. *)
checkHitWithoutWindow(c) ==
  IF c.player.isInvincible \/ c.store.isImmortalityActive
  THEN Do(c, "player-hit", 0, c.store)
  ELSE LET c1 == Do(c, "takeDamage", 0, takeDamage(c.store))
           c2 == [c1 EXCEPT !.player.lastDamageTime = c.now]
       IN [c2 EXCEPT !.log = Append(c1.log, Entry("player-hit", 1, c, c1.store))]

checkHit(c) ==
  IF c.player.isInvincible \/ c.store.isImmortalityActive
  THEN Do(c, "player-hit", 0, c.store)
  ELSE LET c1 == Do(c, "takeDamage", 0, takeDamage(c.store))
           c2 == [c1 EXCEPT !.player.isInvincible = TRUE,
                            !.player.lastDamageTime = c.now]
       IN [c2 EXCEPT !.log = Append(c1.log, Entry("player-hit", 1, c, c1.store))]

(* Player.tsx:158-160, 226-235: the frame callback's invincibility expiry.   *)
playerFrame(p, status, t) ==
  IF status # PLAYING /\ status # SHOP THEN p
  ELSE IF p.isInvincible /\ t - p.lastDamageTime > INVINCIBLE_MS
       THEN [p EXCEPT !.isInvincible = FALSE]
       ELSE p

----------------------------------------------------------------------------
(* types.ts, LevelManager.tsx constants *)

OBSTACLE == "OBSTACLE"
GEM == "GEM"
LETTER == "LETTER"
SHOP_PORTAL == "SHOP_PORTAL"
MONSTER == "MONSTER"
FLOWER == "FLOWER"
MISSILE == "MISSILE"

LANE_WIDTH == (22 * Scale) \div 10

SPAWN_DISTANCE == 120 * Scale

REMOVE_DISTANCE == 20 * Scale

BASE_LETTER_INTERVAL == 150 * Scale

MAX_FRAME_DELTA == (5 * Scale) \div 100

NoIndex == -1

(* A GameObject (types.ts:31-41).  targetIndex = NoIndex stands for an      *)
(* undefined targetIndex, hasFired = FALSE for an undefined hasFired.        *)
GameObject(id, type, x, y, z, targetIndex) ==
  [ id |-> id, type |-> type, x |-> x, y |-> y, z |-> z, active |-> TRUE,
    hasFired |-> FALSE, targetIndex |-> targetIndex ]

Abs(a) == IF a < 0 THEN -a ELSE a

MaxLane(laneCount) == laneCount \div 2

Lanes(laneCount) == (-MaxLane(laneCount)) .. MaxLane(laneCount)

(* uuidv4(): an id no object of the registry carries.  Ids are opaque keys;  *)
(* the model hands out the successor of the largest id in use.              *)
RECURSIVE MaxId(_)
MaxId(objs) == IF objs = <<>> THEN 0 ELSE Max(Head(objs).id, MaxId(Tail(objs)))

uuidv4(objs) == MaxId(objs) + 1

(* LevelManager.tsx:161-190, the reset / level-up effect.  It runs after a  *)
(* render in which status or level differ from the previous render; the     *)
(* refs prevStatus / prevLevel always hold the previously rendered values.  *)
levelEffectWithoutVictoryReset(lm, status, level) ==
  LET isRestart == status = PLAYING /\ lm.prevStatus = GAME_OVER
      isMenuReset == status = MENU
      isLevelUp == level # lm.prevLevel /\ status = PLAYING
      isVictoryReset == FALSE
      Shallow(o) == o.z > -(80 * Scale)
      lm1 == IF isMenuReset \/ isRestart \/ isVictoryReset
             THEN [lm EXCEPT !.objects = <<>>,
                             !.distanceTraveled = 0,
                             !.nextLetterDistance = BASE_LETTER_INTERVAL]
             ELSE IF isLevelUp /\ level > 1
             THEN [lm EXCEPT
                     !.objects = Append(SelectSeq(lm.objects, Shallow),
                                        GameObject(uuidv4(lm.objects), SHOP_PORTAL, 0, 0,
                                                   -(100 * Scale), NoIndex)),
                     !.nextLetterDistance =
                        lm.distanceTraveled - SPAWN_DISTANCE + BASE_LETTER_INTERVAL]
             ELSE lm
  IN IF status = lm.prevStatus /\ level = lm.prevLevel
     THEN lm
     ELSE [lm1 EXCEPT !.prevStatus = status, !.prevLevel = level]

levelEffect(lm, status, level) ==
  LET isRestart == status = PLAYING /\ lm.prevStatus = GAME_OVER
      isMenuReset == status = MENU
      isLevelUp == level # lm.prevLevel /\ status = PLAYING
      isVictoryReset == status = PLAYING /\ lm.prevStatus = VICTORY
      Shallow(o) == o.z > -(80 * Scale)
      lm1 == IF isMenuReset \/ isRestart \/ isVictoryReset
             THEN [lm EXCEPT !.objects = <<>>,
                             !.distanceTraveled = 0,
                             !.nextLetterDistance = BASE_LETTER_INTERVAL]
             ELSE IF isLevelUp /\ level > 1
             THEN [lm EXCEPT
                     !.objects = Append(SelectSeq(lm.objects, Shallow),
                                        GameObject(uuidv4(lm.objects), SHOP_PORTAL, 0, 0,
                                                   -(100 * Scale), NoIndex)),
                     !.nextLetterDistance =
                        lm.distanceTraveled - SPAWN_DISTANCE + BASE_LETTER_INTERVAL]
             ELSE lm
  IN IF status = lm.prevStatus /\ level = lm.prevLevel
     THEN lm
     ELSE [lm1 EXCEPT !.prevStatus = status, !.prevLevel = level]

----------------------------------------------------------------------------
(* LevelManager.tsx:201-452, the per-frame tick *)

GEM_POINTS == 50

isDamageSource(type) == type \in {FLOWER, MONSTER, MISSILE}

(* The assignment obj.active = false (LevelManager.tsx:262, 288, 318),     *)
(* entered in the run's list under the object's id.                          *)
deactivate(c, obj) == Do(c, "deactivate", obj.id, c.store)

(* LevelManager.tsx:253-324: one object against the player.  c is the       *)
(* handler's run so far; the result carries the new run and the object's    *)
(* active / keep flags.                                                      *)
interactWithoutActiveTest(c, obj, prevZ, pos) ==
  LET zThreshold == 2 * Scale
      inZZone == (prevZ < pos.z + zThreshold) /\ (obj.z > pos.z - zThreshold)
      dx == Abs(obj.x - pos.x)
      playerBottom == pos.y
      playerTop == pos.y + (12 * Scale) \div 10
      objBottom == IF obj.type = MISSILE THEN (5 * Scale) \div 10 ELSE 0
      objTop == IF obj.type = MISSILE THEN 2 * Scale ELSE (15 * Scale) \div 10
      isHit == (playerBottom < objTop) /\ (playerTop > objBottom)
      dy == Abs(obj.y - pos.y)
      untouched == [c |-> c, active |-> obj.active, keep |-> TRUE]
  IN IF obj.type = SHOP_PORTAL
     THEN IF Abs(obj.z - pos.z) < 2 * Scale
          THEN [c |-> deactivate(Do(c, "openShop", obj.id, openShop(c.store)), obj),
                active |-> FALSE, keep |-> FALSE]
          ELSE untouched
     ELSE IF inZZone /\ dx < (9 * Scale) \div 10
     THEN IF isDamageSource(obj.type)
          THEN IF isHit
               THEN [c |-> deactivate(checkHit(c), obj), active |-> FALSE, keep |-> TRUE]
               ELSE untouched
          ELSE IF dy < (25 * Scale) \div 10
               THEN LET c1 == IF obj.type = GEM
                              THEN Do(c, "collectGem", GEM_POINTS,
                                      collectGem(c.store, GEM_POINTS))
                              ELSE c
                        c2 == IF obj.type = LETTER /\ obj.targetIndex # NoIndex
                              THEN Do(c1, "collectLetter", obj.targetIndex,
                                      collectLetter(c1.store, obj.targetIndex))
                              ELSE c1
                    IN [c |-> deactivate(c2, obj), active |-> FALSE, keep |-> TRUE]
               ELSE untouched
     ELSE untouched

interact(c, obj, prevZ, pos) ==
  LET zThreshold == 2 * Scale
      inZZone == (prevZ < pos.z + zThreshold) /\ (obj.z > pos.z - zThreshold)
      dx == Abs(obj.x - pos.x)
      playerBottom == pos.y
      playerTop == pos.y + (12 * Scale) \div 10
      objBottom == IF obj.type = MISSILE THEN (5 * Scale) \div 10 ELSE 0
      objTop == IF obj.type = MISSILE THEN 2 * Scale ELSE (15 * Scale) \div 10
      isHit == (playerBottom < objTop) /\ (playerTop > objBottom)
      dy == Abs(obj.y - pos.y)
      untouched == [c |-> c, active |-> obj.active, keep |-> TRUE]
  IN IF ~obj.active THEN untouched
     ELSE IF obj.type = SHOP_PORTAL
     THEN IF Abs(obj.z - pos.z) < 2 * Scale
          THEN [c |-> deactivate(Do(c, "openShop", obj.id, openShop(c.store)), obj),
                active |-> FALSE, keep |-> FALSE]
          ELSE untouched
     ELSE IF inZZone /\ dx < (9 * Scale) \div 10
     THEN IF isDamageSource(obj.type)
          THEN IF isHit
               THEN [c |-> deactivate(checkHit(c), obj), active |-> FALSE, keep |-> TRUE]
               ELSE untouched
          ELSE IF dy < (25 * Scale) \div 10
               THEN LET c1 == IF obj.type = GEM
                              THEN Do(c, "collectGem", GEM_POINTS,
                                      collectGem(c.store, GEM_POINTS))
                              ELSE c
                        c2 == IF obj.type = LETTER /\ obj.targetIndex # NoIndex
                              THEN Do(c1, "collectLetter", obj.targetIndex,
                                      collectLetter(c1.store, obj.targetIndex))
                              ELSE c1
                    IN [c |-> deactivate(c2, obj), active |-> FALSE, keep |-> TRUE]
               ELSE untouched
     ELSE untouched

(* LevelManager.tsx:224-334: the loop body for one object. acc holds the    *)
(* run c, keptObjects, newSpawns and the id counter.                        *)
resolveObjectRefiring(acc, obj, dist, safeDelta, pos) ==
  LET moveAmount == dist + (IF obj.type = MISSILE
                            THEN (30 * Scale * safeDelta) \div Scale ELSE 0)
      prevZ == obj.z
      z1 == obj.z + moveAmount
      fires == obj.type = MONSTER /\ obj.active /\ z1 > -(80 * Scale)
      moved == [obj EXCEPT !.z = z1, !.hasFired = obj.hasFired \/ fires]
      spawns == IF fires
                THEN Append(acc.newSpawns,
                            GameObject(acc.nextId, MISSILE, obj.x, (15 * Scale) \div 10,
                                       z1 + 2 * Scale, NoIndex))
                ELSE acc.newSpawns
      r == interact(acc.c, moved, prevZ, pos)
      final == [moved EXCEPT !.active = r.active]
      keep == r.keep /\ ~(z1 > REMOVE_DISTANCE)
  IN [ c |-> r.c,
       kept |-> IF keep THEN Append(acc.kept, final) ELSE acc.kept,
       newSpawns |-> spawns,
       nextId |-> IF fires THEN acc.nextId + 1 ELSE acc.nextId ]

resolveObjectMissileLagging(acc, obj, dist, safeDelta, pos) ==
  LET moveAmount == dist + (IF obj.type = MISSILE
                            THEN -((30 * Scale * safeDelta) \div Scale) ELSE 0)
      prevZ == obj.z
      z1 == obj.z + moveAmount
      fires == obj.type = MONSTER /\ obj.active /\ ~obj.hasFired /\ z1 > -(80 * Scale)
      moved == [obj EXCEPT !.z = z1, !.hasFired = obj.hasFired \/ fires]
      spawns == IF fires
                THEN Append(acc.newSpawns,
                            GameObject(acc.nextId, MISSILE, obj.x, (15 * Scale) \div 10,
                                       z1 + 2 * Scale, NoIndex))
                ELSE acc.newSpawns
      r == interact(acc.c, moved, prevZ, pos)
      final == [moved EXCEPT !.active = r.active]
      keep == r.keep /\ ~(z1 > REMOVE_DISTANCE)
  IN [ c |-> r.c,
       kept |-> IF keep THEN Append(acc.kept, final) ELSE acc.kept,
       newSpawns |-> spawns,
       nextId |-> IF fires THEN acc.nextId + 1 ELSE acc.nextId ]

resolveObject(acc, obj, dist, safeDelta, pos) ==
  LET moveAmount == dist + (IF obj.type = MISSILE
                            THEN (30 * Scale * safeDelta) \div Scale ELSE 0)
      prevZ == obj.z
      z1 == obj.z + moveAmount
      fires == obj.type = MONSTER /\ obj.active /\ ~obj.hasFired /\ z1 > -(80 * Scale)
      moved == [obj EXCEPT !.z = z1, !.hasFired = obj.hasFired \/ fires]
      spawns == IF fires
                THEN Append(acc.newSpawns,
                            GameObject(acc.nextId, MISSILE, obj.x, (15 * Scale) \div 10,
                                       z1 + 2 * Scale, NoIndex))
                ELSE acc.newSpawns
      r == interact(acc.c, moved, prevZ, pos)
      final == [moved EXCEPT !.active = r.active]
      keep == r.keep /\ ~(z1 > REMOVE_DISTANCE)
  IN [ c |-> r.c,
       kept |-> IF keep THEN Append(acc.kept, final) ELSE acc.kept,
       newSpawns |-> spawns,
       nextId |-> IF fires THEN acc.nextId + 1 ELSE acc.nextId ]

RECURSIVE resolveAll(_, _, _, _, _)
resolveAll(acc, objs, dist, safeDelta, pos) ==
  IF objs = <<>> THEN acc
  ELSE resolveAll(resolveObject(acc, Head(objs), dist, safeDelta, pos),
                  Tail(objs), dist, safeDelta, pos)

MinOf(S) == CHOOSE m \in S : \A x \in S : m <= x

(* LevelManager.tsx:341-346 *)
furthestZ(kept) ==
  LET staticZ == {kept[i].z : i \in {j \in DOMAIN kept : kept[j].type # MISSILE}}
  IN IF staticZ = {} THEN -(20 * Scale) ELSE MinOf(staticZ)

(* LevelManager.tsx:350-351; speed is the rendered speed *)
spawnZ(kept, speed) ==
  LET minGap == 12 * Scale + (speed * 3) \div 10
  IN Min(furthestZ(kept) - minGap, -SPAWN_DISTANCE)

Proto(type, lane, y, idx) == [type |-> type, x |-> lane * LANE_WIDTH, y |-> y, idx |-> idx]

(* The lanes the random draws of the spawn step are taken from: the middle  *)
(* lane and its right neighbour, both present at every lane count.          *)
DrawnLanes == {0, 1}

(* LevelManager.tsx:355-445: the batches the random draws can produce.      *)
(* r is the rendered store (the closure's collectedLetters, laneCount,      *)
(* level, speed).                                                            *)
spawnDrawsRepeatingLane(r, isLetterDue, drawn) ==
  LET lanes == Lanes(r.laneCount) \cap drawn
      availableIndices == {i \in LetterIndices : ~BagIn(i, r.collectedLetters)}
      gems == {<<Proto(GEM, l, (12 * Scale) \div 10, NoIndex)>> : l \in lanes}
      allowMonster == r.level > 1 \/ r.speed > 30 * Scale
      kinds == IF allowMonster THEN {MONSTER, FLOWER} ELSE {FLOWER}
      Hazard(k, l) == Proto(k, l, IF k = MONSTER THEN 2 * Scale ELSE 0, NoIndex)
      one == {<<Hazard(k, l)>> : k \in kinds, l \in lanes}
      two == {<<Hazard(k, l[1]), Hazard(k, l[2])>> :
                 k \in kinds, l \in lanes \X lanes}
  IN IF isLetterDue
     THEN IF availableIndices # {}
          THEN {<<Proto(LETTER, l, 1 * Scale, i)>> : l \in lanes, i \in availableIndices}
          ELSE gems
     ELSE {<<>>} \cup one \cup two \cup gems

spawnDrawsGemWhenDue(r, isLetterDue, drawn) ==
  LET lanes == Lanes(r.laneCount) \cap drawn
      gems == {<<Proto(GEM, l, (12 * Scale) \div 10, NoIndex)>> : l \in lanes}
  IN IF isLetterDue THEN gems ELSE spawnDrawsRepeatingLane(r, isLetterDue, drawn)

spawnDraws(r, isLetterDue, drawn) ==
  LET lanes == Lanes(r.laneCount) \cap drawn
      availableIndices == {i \in LetterIndices : ~BagIn(i, r.collectedLetters)}
      gems == {<<Proto(GEM, l, (12 * Scale) \div 10, NoIndex)>> : l \in lanes}
      allowMonster == r.level > 1 \/ r.speed > 30 * Scale
      kinds == IF allowMonster THEN {MONSTER, FLOWER} ELSE {FLOWER}
      Hazard(k, l) == Proto(k, l, IF k = MONSTER THEN 2 * Scale ELSE 0, NoIndex)
      one == {<<Hazard(k, l)>> : k \in kinds, l \in lanes}
      two == {<<Hazard(k, l[1]), Hazard(k, l[2])>> :
                 k \in kinds, l \in {p \in lanes \X lanes : p[1] # p[2]}}
  IN IF isLetterDue
     THEN IF availableIndices # {}
          THEN {<<Proto(LETTER, l, 1 * Scale, i)>> : l \in lanes, i \in availableIndices}
          ELSE gems
     ELSE {<<>>} \cup one \cup two \cup gems

(* The draws the frame-level specifications follow. *)
spawnBatches(r, isLetterDue) == spawnDraws(r, isLetterDue, DrawnLanes)

RECURSIVE withIds(_, _, _)
withIds(batch, z, id) ==
  IF batch = <<>> THEN <<>>
  ELSE <<GameObject(id, Head(batch).type, Head(batch).x, Head(batch).y, z, Head(batch).idx)>>
       \o withIds(Tail(batch), z, id + 1)

(* The tick from its first statement after the status gate to the commit of *)
(* objectsRef.  r: the rendered store; c: the run; lm: the component's      *)
(* refs; batch: the draw of the spawn step (ignored when the gate is shut). *)
tickGateOpen(kept) == furthestZ(kept) > -SPAWN_DISTANCE

tickMove(lm, c, r, delta, pos) ==
  LET safeDelta == Min(delta, MAX_FRAME_DELTA)
      c1 == Do(c, "decrementTimer", safeDelta, decrementTimer(c.store, safeDelta))
      dist == (r.speed * safeDelta) \div Scale
  IN [ acc |-> resolveAll([c |-> c1, kept |-> <<>>, newSpawns |-> <<>>,
                           nextId |-> uuidv4(lm.objects)],
                          lm.objects, dist, safeDelta, pos),
       distanceTraveled |-> lm.distanceTraveled + dist ]

tickSpawnAdvancing(lm, m, r, batch) ==
  LET kept == m.acc.kept \o m.acc.newSpawns
      open == tickGateOpen(kept)
      due == m.distanceTraveled >= lm.nextLetterDistance
      new == IF open THEN withIds(batch, spawnZ(kept, r.speed) + (r.speed * MAX_FRAME_DELTA) \div Scale,
                                  m.acc.nextId) ELSE <<>>
      letter == open /\ due /\ batch # <<>> /\ batch[1].type = LETTER
  IN [lm EXCEPT
        !.objects = kept \o new,
        !.distanceTraveled = m.distanceTraveled,
        !.nextLetterDistance = IF letter THEN @ + BASE_LETTER_INTERVAL ELSE @]

tickSpawn(lm, m, r, batch) ==
  LET kept == m.acc.kept \o m.acc.newSpawns
      open == tickGateOpen(kept)
      due == m.distanceTraveled >= lm.nextLetterDistance
      new == IF open THEN withIds(batch, spawnZ(kept, r.speed), m.acc.nextId) ELSE <<>>
      letter == open /\ due /\ batch # <<>> /\ batch[1].type = LETTER
  IN [lm EXCEPT
        !.objects = kept \o new,
        !.distanceTraveled = m.distanceTraveled,
        !.nextLetterDistance = IF letter THEN @ + BASE_LETTER_INTERVAL ELSE @]

----------------------------------------------------------------------------
(* part_000 (HUD / ShopScreen): the shop catalog *)

SHOP_ITEMS ==
  { [id |-> "DOUBLE_JUMP", cost |-> 1000],
    [id |-> "MAX_LIFE", cost |-> 1500],
    [id |-> "HEAL", cost |-> 1000],
    [id |-> "IMMORTAL", cost |-> 3000] }

----------------------------------------------------------------------------
(* Bounds of the model *)

MaxGems == 60         \* collectGem calls per run (store-level specification)
MaxMaxLives == 4      \* MAX_LIFE purchases stop at this many life slots
MaxPending == 2       \* armed expiry callbacks
MaxElapse == 1        \* clock steps (store-level specification)
FineWindow == 5      \* frame-sized timer deltas are enumerated at or below this

StartTime == 10 * Scale

(* Timer deltas offered to decrementTimer.  Away from expiry one coarse     *)
(* delta stands for a run of frames (decrements add up), the last of them   *)
(* landing on the fine window; inside the window the frame-sized deltas     *)
(* 0.05 s and 0.1 s are enumerated.                                         *)
CoarseDelta == (5995 * Scale) \div 100

TimerDeltas(s) ==
  IF s.timeLeft > CoarseDelta + FineWindow THEN {CoarseDelta}
  ELSE IF s.timeLeft > FineWindow THEN {s.timeLeft - FineWindow}
  ELSE {(5 * Scale) \div 100, (10 * Scale) \div 100}

ElapseStep == IMMORTALITY_MS

(* Letter indices offered to collectLetter at store level: the smallest     *)
(* uncollected index (the code treats the six indices alike: it only tests  *)
(* membership and counts) and every index already collected.                *)
LetterOffers(s) ==
  LET missing == {i \in LetterIndices : ~BagIn(i, s.collectedLetters)}
  IN (IF missing = {} THEN {} ELSE {MinOf(missing)})
       \cup {i \in LetterIndices : i = 0 /\ BagIn(i, s.collectedLetters)}

----------------------------------------------------------------------------
(* State *)

LM == [ objects |-> objects, prevStatus |-> prevStatus, prevLevel |-> prevLevel,
        distanceTraveled |-> distanceTraveled,
        nextLetterDistance |-> nextLetterDistance ]

SetLM(lm) ==
  /\ objects' = lm.objects
  /\ prevStatus' = lm.prevStatus
  /\ prevLevel' = lm.prevLevel
  /\ distanceTraveled' = lm.distanceTraveled
  /\ nextLetterDistance' = lm.nextLetterDistance

(* part_000:50-59: the ShopScreen's mount effect.  The HUD mounts the       *)
(* screen when it renders the status SHOP (rendered: the status of the      *)
(* render before): the one-time items already owned are left out and three  *)
(* of the rest are drawn; the drawn items stay for the visit.               *)
shopOffers(items, rendered, s) ==
  IF s.status # SHOP THEN {{}}
  ELSE IF rendered = SHOP THEN {items}
  ELSE LET pool == {item.id : item \in
                      {it \in SHOP_ITEMS :
                         /\ ~(it.id = "DOUBLE_JUMP" /\ s.hasDoubleJump)
                         /\ ~(it.id = "IMMORTAL" /\ s.hasImmortality)}}
       IN IF Cardinality(pool) <= 3 THEN {pool}
          ELSE {pool \ {id} : id \in pool}

(* The end of a handler: the store and refs it leaves, then React's commit, *)
(* which runs the effects of Player and LevelManager on the rendered status, *)
(* level and lane count.                                                     *)
Finish(c, lm) ==
  /\ store' = c.store
  /\ player' = playerEffects(c.player, prevStatus, c.store)
  /\ log' = c.log
  /\ shopItems' \in shopOffers(shopItems, prevStatus, c.store)
  /\ SetLM(levelEffect(lm, c.store.status, c.store.level))

Init ==
  /\ store = InitialStore
  /\ pendingExpiry = EmptyBag
  /\ staleExpiry = EmptyBag
  /\ player = InitialPlayer
  /\ objects = <<>>
  /\ prevStatus = MENU
  /\ prevLevel = 1
  /\ distanceTraveled = 0
  /\ nextLetterDistance = BASE_LETTER_INTERVAL
  /\ now = StartTime
  /\ frames = 0
  /\ log = <<>>
  /\ shopItems = {}

----------------------------------------------------------------------------
(* Store operations as actions *)

(* The Difficulty members in declaration order (types.ts:15-19); a          *)
(* startGame entry of the log names its argument by position.               *)
DifficultyOrder == <<EASY, MEDIUM, HARD>>

Ordinal(diff) == CHOOSE k \in DOMAIN DifficultyOrder : DifficultyOrder[k] = diff

(* The HUD offers the three start buttons on the menu screen alone          *)
(* (part_000:129-145).                                                       *)
StartGame(diff) ==
  /\ store.status = MENU
  /\ Finish(Do(Ctx(now), "startGame", Ordinal(diff), startGame(store, diff)), LM)
  /\ staleExpiry' = pendingExpiry
  /\ UNCHANGED <<pendingExpiry, now, frames>>

(* The HUD offers the restart button on the game-over and victory screens   *)
(* alone (part_000:174, 202).                                                *)
RestartGame ==
  /\ store.status \in {GAME_OVER, VICTORY}
  /\ LET c == Ctx(now)
         c1 == Do(c, "startGame", Ordinal(store.difficulty), restartGame(store))
     IN Finish([c1 EXCEPT !.log = Append(c1.log, Entry("restartGame", 0, c, c1.store))],
               LM)
  /\ staleExpiry' = pendingExpiry
  /\ UNCHANGED <<pendingExpiry, now, frames>>

(* decrementTimer, takeDamage (through checkHit), collectGem and            *)
(* collectLetter are called from the tick alone, which runs once a game has *)
(* been started (LevelManager.tsx:202); within a tick the status may have   *)
(* left PLAYING already.                                                     *)
InRun == store.status # MENU

DecrementTimer(delta) ==
  /\ InRun
  /\ Finish(Do(Ctx(now), "decrementTimer", delta, decrementTimer(store, delta)), LM)
  /\ UNCHANGED <<pendingExpiry, staleExpiry, now, frames>>

TakeDamage ==
  /\ InRun
  /\ Finish(Do(Ctx(now), "takeDamage", 0, takeDamage(store)), LM)
  /\ UNCHANGED <<pendingExpiry, staleExpiry, now, frames>>

CollectGem ==
  /\ InRun
  /\ store.gemsCollected < MaxGems
  /\ Finish(Do(Ctx(now), "collectGem", GEM_POINTS, collectGem(store, GEM_POINTS)), LM)
  /\ UNCHANGED <<pendingExpiry, staleExpiry, now, frames>>

CollectLetter(index) ==
  /\ InRun
  /\ Finish(Do(Ctx(now), "collectLetter", index, collectLetter(store, index)), LM)
  /\ UNCHANGED <<pendingExpiry, staleExpiry, now, frames>>

(* openShop is called by the tick alone, which runs while the rendered      *)
(* status is PLAYING (LevelManager.tsx:202).                                 *)
OpenShop ==
  /\ store.status = PLAYING
  /\ Finish(Do(Ctx(now), "openShop", 0, openShop(store)), LM)
  /\ UNCHANGED <<pendingExpiry, staleExpiry, now, frames>>

(* closeShop is called by the shop screen alone, which the HUD mounts while *)
(* the status is SHOP (part_000:111).                                        *)
CloseShop ==
  /\ store.status = SHOP
  /\ Finish(Do(Ctx(now), "closeShop", 0, closeShop(store)), LM)
  /\ UNCHANGED <<pendingExpiry, staleExpiry, now, frames>>

(* The second entry records what the call returned (1: true, 0: false).     *)
BuyItem(item) ==
  /\ item.id = "MAX_LIFE" => store.maxLives < MaxMaxLives
  /\ LET c1 == Do(Ctx(now), item.id, item.cost, buyItem(store, item.id, item.cost))
         returned == IF buyItemResult(store, item.id, item.cost) THEN 1 ELSE 0
     IN Finish(Do(c1, "buyItem-returns", returned, c1.store), LM)
  /\ UNCHANGED <<pendingExpiry, staleExpiry, now, frames>>

ActivateImmortality ==
  /\ activateImmortalityArms(store) => BagCardinality(pendingExpiry) < MaxPending
  /\ Finish(Do(Ctx(now), "activateImmortality", 0, activateImmortality(store)), LM)
  /\ pendingExpiry' = IF activateImmortalityArms(store)
                      THEN pendingExpiry (+) SetToBag({now + IMMORTALITY_MS})
                      ELSE pendingExpiry
  /\ UNCHANGED <<staleExpiry, now, frames>>

(* The setTimeout callback (store.ts:225-227): the earliest armed callback  *)
(* runs once its delay has passed.  The entry's argument is 1 when the      *)
(* callback was armed before the latest startGame, 0 otherwise.             *)
ImmortalityTimeout ==
  /\ pendingExpiry # EmptyBag
  /\ LET due == MinOf(BagToSet(pendingExpiry)) IN
     /\ due <= now
     /\ pendingExpiry' = pendingExpiry (-) SetToBag({due})
     /\ staleExpiry' = staleExpiry (-) SetToBag({due})
     /\ Finish(Do(Ctx(now), "immortalityTimeout", IF BagIn(due, staleExpiry) THEN 1 ELSE 0,
                  immortalityTimeout(store)), LM)
  /\ UNCHANGED <<now, frames>>

(* Wall-clock time passing with no frame rendered *)
Elapse ==
  /\ now < StartTime + MaxElapse * ElapseStep
  /\ now' = now + ElapseStep
  /\ log' = <<>>
  /\ UNCHANGED <<store, pendingExpiry, staleExpiry, player, lmVars, frames, shopItems>>

(* Lives, economy and the special ability: the store operations that read  *)
(* or write score, lives, maxLives and the ability flags.                   *)
Next ==
  \/ \E diff \in Difficulty : StartGame(diff)
  \/ RestartGame
  \/ TakeDamage
  \/ CollectGem
  \/ \E item \in SHOP_ITEMS : BuyItem(item)
  \/ ActivateImmortality
  \/ ImmortalityTimeout
  \/ Elapse

Spec == Init /\ [][Next]_vars

(* Timer, letters, levels and status: the store operations that read or     *)
(* write timeLeft, collectedLetters, level, laneCount, speed and status.    *)
TimerNext ==
  \/ \E diff \in Difficulty : StartGame(diff)
  \/ RestartGame
  \/ \E delta \in TimerDeltas(store) : DecrementTimer(delta)
  \/ \E index \in LetterOffers(store) : CollectLetter(index)
  \/ TakeDamage
  \/ OpenShop
  \/ CloseShop

TimerSpec == Init /\ [][TimerNext]_vars

----------------------------------------------------------------------------
(* The game frame by frame.  A run from the menu needs hundreds of frames   *)
(* to bring an object to the player or the timer to 0, so the frame-level   *)
(* specification starts from the construction state and from states in the  *)
(* middle of a run: the store such a run has built by its own operations,   *)
(* and a registry with one object about to reach the player, possibly a     *)
(* missile catching up with it from behind, and the rest of the track far   *)
(* away.                                                                     *)

MaxFrames == 2        \* frames per behaviour

RECURSIVE collectLetters(_, _)
collectLetters(s, n) ==
  IF n = 0 THEN s
  ELSE collectLetter(collectLetters(s, n - 1), (n - 1) % Len(GEMINI_TARGET))

(* n collectGem(GEM_POINTS) calls, added up *)
collectGems(s, n) ==
  [s EXCEPT !.score = s.score + n * GEM_POINTS, !.gemsCollected = s.gemsCollected + n]

RECURSIVE takeDamages(_, _)
takeDamages(s, n) == IF n = 0 THEN s ELSE takeDamage(takeDamages(s, n - 1))

(* Letters collected so far in the run: none; five of the first word; the   *)
(* first word (level 2 just entered, its portal ahead); all but the last    *)
(* letter of the third word.                                                 *)
Progress == {0, 5, 6, 17}

ImmortalCost == (CHOOSE item \in SHOP_ITEMS : item.id = "IMMORTAL").cost

(* The store of a run: started at diff, gems gems and n letters collected,  *)
(* hits hits taken, the ability bought and switched on if shield, and rem   *)
(* left on the timer.                                                        *)
MidRunStore(diff, gems, n, hits, shield, rem) ==
  LET s1 == collectLetters(collectGems(startGame(InitialStore, diff), gems), n)
      s2 == takeDamages(s1, hits)
      s3 == IF shield
            THEN activateImmortality(
                   closeShop(buyItem(openShop(s2), "IMMORTAL", ImmortalCost)))
            ELSE s2
  IN decrementTimer(s3, s3.timeLeft - rem)

NearKinds == {"none", FLOWER, GEM, LETTER, SHOP_PORTAL}

NearZ == -((25 * Scale) \div 10)
MissileZ == -(4 * Scale)
MonsterZ == -(40 * Scale)
TailZ == -(137 * Scale)

(* The registry, oldest object first: the object near the player, the       *)
(* monster that fired the missile, the far end of the track, the missile.   *)
MidRunObjects(near, missile, n) ==
  LET first == CASE near = "none" -> <<>>
                 [] near = FLOWER -> <<GameObject(1, FLOWER, 0, 0, NearZ, NoIndex)>>
                 [] near = GEM ->
                      <<GameObject(1, GEM, 0, (12 * Scale) \div 10, NearZ, NoIndex)>>
                 [] near = LETTER ->
                      <<GameObject(1, LETTER, 0, 1 * Scale, NearZ, n % Len(GEMINI_TARGET))>>
                 [] near = SHOP_PORTAL -> <<GameObject(1, SHOP_PORTAL, 0, 0, NearZ, NoIndex)>>
      monster == [GameObject(2, MONSTER, 0, 2 * Scale, MonsterZ, NoIndex)
                    EXCEPT !.hasFired = TRUE]
      tail == GameObject(3, GEM, LANE_WIDTH, (12 * Scale) \div 10, TailZ, NoIndex)
  IN first \o (IF missile THEN <<monster>> ELSE <<>>) \o <<tail>>
       \o (IF missile
           THEN <<GameObject(4, MISSILE, 0, (15 * Scale) \div 10, MissileZ, NoIndex)>>
           ELSE <<>>)

LowTime == 3          \* 0.03 s on the timer: less than one frame
AmpleTime == 2000     \* 20 s on the timer

MidRun ==
  \E diff \in {EASY, HARD}, n \in Progress, near \in NearKinds, missile \in BOOLEAN,
     hits \in {0, 2}, shield \in BOOLEAN, rem \in {LowTime, AmpleTime},
     inv \in BOOLEAN :
    \* the portal is the one a level-up has just put on the track
    /\ (near = SHOP_PORTAL) = (n = 6)
    /\ near = SHOP_PORTAL => rem = AmpleTime
    \* monsters and their missiles appear from level 2 or above 30 units/s
    /\ missile => (n >= 6 \/ diff = HARD)
    \* the shop has been visited, with gems to pay for the ability
    /\ shield => n = 17
    \* the invincibility window was opened by a hit: it is still open, or it
    \* ran out long ago and a Player frame has cleared the flag
    /\ inv => hits > 0
    /\ store = MidRunStore(diff, IF shield \/ n = 6 THEN MaxGems ELSE 0, n, hits, shield, rem)
    /\ pendingExpiry = IF shield THEN SetToBag({StartTime + 2 * MAX_FRAME_DELTA})
                       ELSE EmptyBag
    /\ staleExpiry = EmptyBag
    /\ player = [InitialPlayer EXCEPT
                   !.isInvincible = inv,
                   !.lastDamageTime =
                     IF hits = 0 THEN 0
                     ELSE IF inv THEN StartTime - (INVINCIBLE_MS - MAX_FRAME_DELTA)
                     ELSE StartTime - 2 * INVINCIBLE_MS]
    /\ objects = MidRunObjects(near, missile, n)
    /\ prevStatus = PLAYING
    /\ prevLevel = store.level
    /\ distanceTraveled = 100 * Scale
    /\ nextLetterDistance = BASE_LETTER_INTERVAL
    /\ now = StartTime
    /\ frames = 0
    /\ log = <<>>
    /\ shopItems = {}

(* A run at the speed that lets monsters appear, after a stretch of empty   *)
(* spawn draws: one monster, one unit short of the line at z = -80 where it *)
(* fires, and nothing else on the track.                                     *)
MonsterAhead ==
  /\ store = MidRunStore(HARD, 0, 0, 0, FALSE, AmpleTime)
  /\ pendingExpiry = EmptyBag
  /\ staleExpiry = EmptyBag
  /\ player = InitialPlayer
  /\ objects = <<GameObject(1, MONSTER, 0, 2 * Scale, -(81 * Scale), NoIndex)>>
  /\ prevStatus = PLAYING
  /\ prevLevel = 1
  /\ distanceTraveled = 100 * Scale
  /\ nextLetterDistance = BASE_LETTER_INTERVAL
  /\ now = StartTime
  /\ frames = 0
  /\ log = <<>>
  /\ shopItems = {}

FrameInit == Init \/ MidRun \/ MonsterAhead

(* LevelManager.tsx:353-376: the letter the spawn step has pushed, recorded *)
(* with the store as it stands at that moment.                               *)
logSpawn(c, batch) ==
  IF batch # <<>> /\ batch[1].type = LETTER
  THEN Do(c, "spawnLetter", batch[1].idx, c.store)
  ELSE c

(* Where the player's body is when the tick reads it: on the ground or at   *)
(* the top of a jump in the objects' lane, or on the ground one lane over.  *)
PlayerPositions ==
  { [x |-> 0, y |-> 0, z |-> 0],
    [x |-> 0, y |-> (25 * Scale) \div 10, z |-> 0],
    [x |-> LANE_WIDTH, y |-> 0, z |-> 0] }

(* Frame deltas: a frame on time and a late one (the tick caps it).         *)
FrameDeltas == {MAX_FRAME_DELTA, 4 * MAX_FRAME_DELTA}

(* One rendered frame: the frame callbacks of Player and LevelManager, in   *)
(* either order, on the values rendered before the frame (r), then React's  *)
(* commit.  The tick runs only while the rendered status is PLAYING.        *)
tickRunsInShop(status) == status \in {PLAYING, SHOP}

(* LevelManager.tsx:202, the tick's status gate *)
tickRuns(status) == status = PLAYING

FrameStep(delta, pos, playerFirst) ==
  /\ store.status # MENU
  /\ LET t == now + delta
         r == store
         c0 == [Ctx(t) EXCEPT !.player =
                  IF playerFirst
                  THEN playerFrame(playerJump(player, r.status, delta), r.status, t)
                  ELSE player]
         ran == tickRuns(r.status)
         m == tickMove(LM, c0, r, delta, pos)
         kept == m.acc.kept \o m.acc.newSpawns
         due == m.distanceTraveled >= nextLetterDistance
         batches == IF ran /\ tickGateOpen(kept) THEN spawnBatches(r, due) ELSE {<<>>}
     IN \E batch \in batches :
          LET c1 == IF ran THEN logSpawn(m.acc.c, batch) ELSE c0
              c2 == [c1 EXCEPT !.player =
                       IF playerFirst THEN @
                       ELSE playerFrame(playerJump(@, r.status, delta), r.status, t)]
          IN Finish(c2, IF ran THEN tickSpawn(LM, m, r, batch) ELSE LM)
  /\ now' = now + delta
  /\ frames' = frames + 1
  /\ UNCHANGED <<pendingExpiry, staleExpiry>>

Frame(delta, pos, playerFirst) ==
  /\ frames < MaxFrames
  /\ FrameStep(delta, pos, playerFirst)

(* The shop screen's buy buttons: mounted while the status is SHOP, one for *)
(* each item drawn at the mount, enabled when the score covers the cost     *)
(* (part_000:76-84).                                                         *)
ShopBuy(item) ==
  /\ store.status = SHOP
  /\ item.id \in shopItems
  /\ store.score >= item.cost
  /\ BuyItem(item)

(* Player.tsx:111-120: the Enter key, handled while the status is PLAYING.  *)
PressEnter ==
  /\ store.status = PLAYING
  /\ ActivateImmortality

FrameNext ==
  \/ \E diff \in Difficulty : StartGame(diff)
  \/ RestartGame
  \/ \E delta \in FrameDeltas, pos \in PlayerPositions, playerFirst \in BOOLEAN :
       Frame(delta, pos, playerFirst)
  \/ \E item \in SHOP_ITEMS : ShopBuy(item)
  \/ CloseShop
  \/ PressEnter
  \/ ImmortalityTimeout

FrameSpec == FrameInit /\ [][FrameNext]_vars

----------------------------------------------------------------------------
(* The car's controls.  Player.tsx:111-117: the arrow keys, handled while   *)
(* the rendered status is PLAYING, on the rendered lane count.              *)
ArrowLeft ==
  /\ store.status = PLAYING
  /\ LET c == Ctx(now)
     IN Finish([c EXCEPT !.player = laneLeft(player, store.laneCount)], LM)
  /\ UNCHANGED <<pendingExpiry, staleExpiry, now, frames>>

ArrowRight ==
  /\ store.status = PLAYING
  /\ LET c == Ctx(now)
     IN Finish([c EXCEPT !.player = laneRight(player, store.laneCount)], LM)
  /\ UNCHANGED <<pendingExpiry, staleExpiry, now, frames>>

(* Player.tsx:118: ArrowUp, w or the space bar *)
ArrowUp ==
  /\ store.status = PLAYING
  /\ LET c == Ctx(now)
     IN Finish([c EXCEPT !.player = triggerJump(player, store.hasDoubleJump)], LM)
  /\ UNCHANGED <<pendingExpiry, staleExpiry, now, frames>>

(* A run on its last life, on the first or the third level, with the track  *)
(* clear or a flower in the middle lane just ahead, and with time to spare  *)
(* or the timer about to run out.                                            *)
LastLife ==
  \E diff \in Difficulty, n \in {0, 2 * Len(GEMINI_TARGET)}, near \in {"none", FLOWER},
     rem \in {LowTime, AmpleTime} :
    /\ store = MidRunStore(diff, 0, n, 2, FALSE, rem)
    /\ pendingExpiry = EmptyBag
    /\ staleExpiry = EmptyBag
    /\ player = [InitialPlayer EXCEPT !.lastDamageTime = StartTime - 2 * INVINCIBLE_MS]
    /\ objects = MidRunObjects(near, FALSE, n)
    /\ prevStatus = PLAYING
    /\ prevLevel = store.level
    /\ distanceTraveled = 100 * Scale
    /\ nextLetterDistance = BASE_LETTER_INTERVAL
    /\ now = StartTime
    /\ frames = 0
    /\ log = <<>>
    /\ shopItems = {}

DoubleJumpCost == (CHOOSE item \in SHOP_ITEMS : item.id = "DOUBLE_JUMP").cost

(* A run on its second level, with or without the double jump bought in the *)
(* shop, the car coming down from a jump of one or two impulses: 0.9 units  *)
(* up and falling at 18 units/s, where a jump is one 0.05 s frame before it *)
(* lands.                                                                    *)
Airborne ==
  \E dj \in BOOLEAN, jumps \in 1 .. 2 :
    /\ jumps = 2 => dj
    /\ store = LET s == MidRunStore(EASY, MaxGems, Len(GEMINI_TARGET), 0, FALSE, AmpleTime)
               IN IF dj THEN closeShop(buyItem(openShop(s), "DOUBLE_JUMP", DoubleJumpCost))
                  ELSE s
    /\ pendingExpiry = EmptyBag
    /\ staleExpiry = EmptyBag
    /\ player = [InitialPlayer EXCEPT !.isJumping = TRUE, !.jumpsPerformed = jumps,
                                      !.y = (JUMP_FORCE * MAX_FRAME_DELTA) \div Scale,
                                      !.velocityY = -JUMP_FORCE]
    /\ objects = MidRunObjects("none", FALSE, Len(GEMINI_TARGET))
    /\ prevStatus = PLAYING
    /\ prevLevel = store.level
    /\ distanceTraveled = 100 * Scale
    /\ nextLetterDistance = BASE_LETTER_INTERVAL
    /\ now = StartTime
    /\ frames = 0
    /\ log = <<>>
    /\ shopItems = {}

PlayerInit == Init \/ LastLife \/ MonsterAhead \/ Airborne

(* Player.tsx:163-174: where the car is when the tick reads it, once it has *)
(* reached its lane.                                                         *)
PlayerAt(p) == [x |-> p.lane * LANE_WIDTH, y |-> p.y, z |-> 0]

PlayerNext ==
  \/ \E diff \in Difficulty : StartGame(diff)
  \/ RestartGame
  \/ \E delta \in FrameDeltas, playerFirst \in BOOLEAN :
       Frame(delta,
             PlayerAt(IF playerFirst THEN playerJump(player, store.status, delta)
                      ELSE player),
             playerFirst)
  \/ ArrowLeft
  \/ ArrowRight
  \/ ArrowUp

PlayerSpec == PlayerInit /\ [][PlayerNext]_vars

----------------------------------------------------------------------------
(* The spawn step.  A run one unit short of its second letter checkpoint,   *)
(* or well short of it, with the letter of the first checkpoint just ahead  *)
(* in the middle lane and a gem behind it, inside the spawn distance: the   *)
(* draws since the letter was spawned have put nothing else on the track.   *)
LetterDue ==
  \E diff \in {EASY, HARD}, n \in {0, Len(GEMINI_TARGET) - 1}, short \in BOOLEAN :
    /\ store = MidRunStore(diff, 0, n, 0, FALSE, AmpleTime)
    /\ pendingExpiry = EmptyBag
    /\ staleExpiry = EmptyBag
    /\ player = InitialPlayer
    /\ objects = << GameObject(1, LETTER, 0, 1 * Scale, NearZ, n),
                    GameObject(2, GEM, LANE_WIDTH, (12 * Scale) \div 10,
                               -(110 * Scale), NoIndex) >>
    /\ prevStatus = PLAYING
    /\ prevLevel = store.level
    /\ nextLetterDistance = 2 * BASE_LETTER_INTERVAL
    /\ distanceTraveled = IF short THEN nextLetterDistance - 100 * Scale
                          ELSE nextLetterDistance - 1 * Scale
    /\ now = StartTime
    /\ frames = 0
    /\ log = <<>>
    /\ shopItems = {}

(* A run that has just entered its second or third level, the portal of    *)
(* the level-up about to come within 2 units of the player.                  *)
PortalAhead ==
  \E diff \in Difficulty, level \in 2 .. MAX_LEVEL :
    /\ store = MidRunStore(diff, 0, (level - 1) * Len(GEMINI_TARGET), 0, FALSE, AmpleTime)
    /\ pendingExpiry = EmptyBag
    /\ staleExpiry = EmptyBag
    /\ player = InitialPlayer
    /\ objects = << GameObject(1, SHOP_PORTAL, 0, 0, NearZ, NoIndex),
                    GameObject(2, GEM, LANE_WIDTH, (12 * Scale) \div 10, TailZ, NoIndex) >>
    /\ prevStatus = PLAYING
    /\ prevLevel = store.level
    /\ distanceTraveled = 98 * Scale
    /\ nextLetterDistance = BASE_LETTER_INTERVAL
    /\ now = StartTime
    /\ frames = 0
    /\ log = <<>>
    /\ shopItems = {}

SpawnInit == Init \/ LetterDue \/ PortalAhead

SpawnNext ==
  \/ \E diff \in Difficulty : StartGame(diff)
  \/ \E delta \in FrameDeltas, pos \in PlayerPositions, playerFirst \in BOOLEAN :
       Frame(delta, pos, playerFirst)

SpawnSpec == SpawnInit /\ [][SpawnNext]_vars

----------------------------------------------------------------------------
(* The wait for a letter.  A run at its second letter checkpoint: one unit  *)
(* short of it with the spawn gate open, or past it with the last spawn     *)
(* still beyond the spawn distance.  The frames are followed for as long as *)
(* the status is PLAYING and no letter has been spawned.                     *)
GateShut ==
  \E diff \in {EASY, HARD}, n \in {0, Len(GEMINI_TARGET) - 1} :
    /\ store = MidRunStore(diff, 0, n, 0, FALSE, AmpleTime)
    /\ pendingExpiry = EmptyBag
    /\ staleExpiry = EmptyBag
    /\ player = InitialPlayer
    /\ objects = << GameObject(1, LETTER, 0, 1 * Scale, NearZ, n),
                    GameObject(2, GEM, LANE_WIDTH, (12 * Scale) \div 10,
                               -(125 * Scale), NoIndex) >>
    /\ prevStatus = PLAYING
    /\ prevLevel = store.level
    /\ nextLetterDistance = 2 * BASE_LETTER_INTERVAL
    /\ distanceTraveled = nextLetterDistance
    /\ now = StartTime
    /\ frames = 0
    /\ log = <<>>
    /\ shopItems = {}

LetterInit ==
  /\ \/ LetterDue /\ distanceTraveled = nextLetterDistance - 1 * Scale
     \/ GateShut
  /\ store.collectedLetters = EmptyBag

LetterSpawned == \E i \in 1 .. Len(log) : log[i].op = "spawnLetter"

LetterFrames ==
  /\ store.status = PLAYING
  /\ ~LetterSpawned
  /\ \E delta \in FrameDeltas, pos \in PlayerPositions, playerFirst \in BOOLEAN :
       FrameStep(delta, pos, playerFirst)

LetterSpec == LetterInit /\ [][LetterFrames]_vars

(* The render loop calls the tick on every frame (LevelManager.tsx:201).    *)
(* In LetterSpec the steps that count a frame are the steps of LetterFrames, *)
(* which are possible whenever its two guards hold.                          *)
FrameRendered ==
  /\ store.status = PLAYING
  /\ ~LetterSpawned
  /\ frames' = frames + 1

FairLetterSpec == LetterSpec /\ WF_frames(FrameRendered)

----------------------------------------------------------------------------
(* The general spawn draw on its own, over every lane of the track.         *)
MaxBatches == 1       \* spawn draws per behaviour

(* A run on any difficulty and level with an empty track. *)
BatchInit ==
  \E diff \in Difficulty, level \in 1 .. MAX_LEVEL :
    /\ store = MidRunStore(diff, 0, (level - 1) * Len(GEMINI_TARGET), 0, FALSE, AmpleTime)
    /\ pendingExpiry = EmptyBag
    /\ staleExpiry = EmptyBag
    /\ player = InitialPlayer
    /\ objects = <<>>
    /\ prevStatus = PLAYING
    /\ prevLevel = store.level
    /\ distanceTraveled = 0
    /\ nextLetterDistance = BASE_LETTER_INTERVAL
    /\ now = StartTime
    /\ frames = 0
    /\ shopItems = {}
    /\ log = <<>>

(* LevelManager.tsx:348-445 with no letter due: one draw, pushed at the     *)
(* spawn line.                                                               *)
SpawnDraw ==
  /\ store.status = PLAYING
  /\ frames < MaxBatches
  /\ tickGateOpen(objects)
  /\ \E batch \in spawnDraws(store, FALSE, Lanes(store.laneCount)) :
       objects' = objects \o withIds(batch, spawnZ(objects, store.speed), uuidv4(objects))
  /\ frames' = frames + 1
  /\ log' = <<>>
  /\ UNCHANGED <<store, pendingExpiry, staleExpiry, player, prevStatus, prevLevel,
                 distanceTraveled, nextLetterDistance, now, shopItems>>

BatchSpec == BatchInit /\ [][SpawnDraw]_vars

----------------------------------------------------------------------------
(* Runs in wall-clock time.  Frames are taken in stretches: a stretch of    *)
(* frames in which nothing is touched subtracts its length from the timer   *)
(* and adds speed x length to the travelled distance (LevelManager.tsx:     *)
(* 204-210; the frame delta is the clock's, capped at 0.05 s, so play never *)
(* runs ahead of the clock).  A letter is on the track only after the       *)
(* distance has reached the next letter checkpoint (LevelManager.tsx:353),  *)
(* the portal only after a level-up has put it there (LevelManager.tsx:     *)
(* 177-182), and the shop, its purchases and the Enter key are reached      *)
(* through the status their callers test.  Of the shop's items the ability  *)
(* alone is bought here.                                                     *)

Horizon == 25         \* seconds of wall-clock time followed

LastTime == StartTime + Horizon * Scale

StepTime == IMMORTALITY_MS \div 2

(* An armed callback runs when it is due: the clock does not pass its due   *)
(* time before it has run.                                                   *)
TimeMayPass(delta) ==
  /\ delta > 0
  /\ now + delta <= LastTime
  /\ \A due \in BagToSet(pendingExpiry) : now + delta <= due

WaitSteps == {StepTime} \cup {due - now : due \in BagToSet(pendingExpiry)}

(* Stretches of play: a step, up to the next due callback, or up to one     *)
(* step before the timer runs out.                                           *)
PlaySteps(s) ==
  WaitSteps \cup (IF s.timeLeft > 2 * StepTime THEN {s.timeLeft - StepTime} ELSE {})

Play(delta) ==
  /\ store.status = PLAYING
  /\ TimeMayPass(delta)
  /\ Finish(Do(Ctx(now), "decrementTimer", delta, decrementTimer(store, delta)),
            [LM EXCEPT !.distanceTraveled = @ + (store.speed * delta) \div Scale])
  /\ now' = now + delta
  /\ UNCHANGED <<pendingExpiry, staleExpiry, frames>>

(* LevelManager.tsx:353-372 and 305-308: the letter spawned at a checkpoint *)
(* moves the checkpoint on by 150 and carries an index not yet collected;   *)
(* the player picks it up.                                                   *)
LetterPickup ==
  /\ store.status = PLAYING
  /\ distanceTraveled >= nextLetterDistance
  /\ LET index == MinOf({i \in LetterIndices : ~BagIn(i, store.collectedLetters)})
     IN Finish(Do(Ctx(now), "collectLetter", index, collectLetter(store, index)),
               [LM EXCEPT !.nextLetterDistance = @ + BASE_LETTER_INTERVAL])
  /\ UNCHANGED <<pendingExpiry, staleExpiry, now, frames>>

(* LevelManager.tsx:257-265: the player reaches the portal, which opens the *)
(* shop and leaves the track.                                                *)
PortalEntered ==
  /\ store.status = PLAYING
  /\ \E i \in 1 .. Len(objects) : objects[i].type = SHOP_PORTAL
  /\ LET NotPortal(o) == o.type # SHOP_PORTAL
     IN Finish(Do(Ctx(now), "openShop", 0, openShop(store)),
               [LM EXCEPT !.objects = SelectSeq(@, NotPortal)])
  /\ UNCHANGED <<pendingExpiry, staleExpiry, now, frames>>

(* LevelManager.tsx:301-304, MaxGems times: the gems that pay for the       *)
(* ability.                                                                  *)
GemRun ==
  /\ store.status = PLAYING
  /\ store.score < ImmortalCost /\ ~store.hasImmortality
  /\ Finish(Do(Ctx(now), "collectGems", MaxGems * GEM_POINTS, collectGems(store, MaxGems)),
            LM)
  /\ UNCHANGED <<pendingExpiry, staleExpiry, now, frames>>

(* The Enter key; an activation is followed while its expiry falls within   *)
(* the horizon.                                                              *)
PressEnterInTime ==
  /\ now + IMMORTALITY_MS <= LastTime
  /\ PressEnter

(* The clock moves on towards an armed callback with no frame rendered.     *)
Wait(delta) ==
  /\ pendingExpiry # EmptyBag
  /\ TimeMayPass(delta)
  /\ now' = now + delta
  /\ log' = <<>>
  /\ UNCHANGED <<store, pendingExpiry, staleExpiry, player, lmVars, frames, shopItems>>

ClockNext ==
  \/ \E diff \in Difficulty : StartGame(diff)
  \/ RestartGame
  \/ \E delta \in PlaySteps(store) : Play(delta)
  \/ LetterPickup
  \/ PortalEntered
  \/ GemRun
  \/ \E item \in {it \in SHOP_ITEMS : it.id = "IMMORTAL"} : ShopBuy(item)
  \/ CloseShop
  \/ PressEnterInTime
  \/ ImmortalityTimeout
  \/ \E delta \in WaitSteps : Wait(delta)

(* A run on its second or third word that bought the ability in a shop and *)
(* has not used it: the last letter of the word is on the track and one     *)
(* step is left on the timer.  The clock is followed for the delay of one   *)
(* expiry from there.                                                        *)
LateRunStore(diff, words) ==
  LET s1 == collectLetters(collectGems(startGame(InitialStore, diff), MaxGems),
                           words * Len(GEMINI_TARGET) - 1)
      s2 == closeShop(buyItem(openShop(s1), "IMMORTAL", ImmortalCost))
  IN decrementTimer(s2, s2.timeLeft - StepTime)

LateRun ==
  \E diff \in Difficulty, words \in {2, 3} :
    /\ store = LateRunStore(diff, words)
    /\ pendingExpiry = EmptyBag
    /\ staleExpiry = EmptyBag
    /\ player = InitialPlayer
    /\ objects = <<>>
    /\ prevStatus = PLAYING
    /\ prevLevel = words
    /\ distanceTraveled = words * Len(GEMINI_TARGET) * BASE_LETTER_INTERVAL
    /\ nextLetterDistance = distanceTraveled
    /\ now = LastTime - IMMORTALITY_MS
    /\ frames = 0
    /\ log = <<>>
    /\ shopItems = {}

ClockInit == Init \/ LateRun

ClockSpec == ClockInit /\ [][ClockNext]_vars

(* The clock does not stop, and the browser runs a callback that is due:    *)
(* neither waits for the player.                                             *)
TimePasses ==
  \/ \E delta \in WaitSteps : Wait(delta)
  \/ \E delta \in PlaySteps(store) : Play(delta)

FairClockSpec == ClockSpec /\ WF_vars(TimePasses) /\ WF_vars(ImmortalityTimeout)

----------------------------------------------------------------------------
(* Whole runs, tick by tick.  A tick (LevelManager.tsx:201-324) runs while  *)
(* the rendered status is PLAYING: it takes its delta off the timer and     *)
(* then meets at most one thing on the track: an obstacle, a letter, or the *)
(* portal that the last level-up has put there.  Letters are not held back  *)
(* by their checkpoints here, so a run collects them at least as fast as    *)
(* the game lets it.                                                         *)

RunEvents(s, lm) ==
  {[kind |-> "none", index |-> NoIndex], [kind |-> "hit", index |-> NoIndex]}
    \cup {[kind |-> "letter", index |-> i] : i \in LetterOffers(s)}
    \cup {[kind |-> "portal", index |-> NoIndex] :
            i \in {j \in 1 .. Len(lm.objects) : lm.objects[j].type = SHOP_PORTAL}}

RunTick(delta, event) ==
  /\ store.status = PLAYING
  /\ LET c1 == Do(Ctx(now), "decrementTimer", delta, decrementTimer(store, delta))
         NotPortal(o) == o.type # SHOP_PORTAL
         c2 == CASE event.kind = "hit" ->
                      Do(c1, "takeDamage", 0, takeDamage(c1.store))
                 [] event.kind = "letter" ->
                      Do(c1, "collectLetter", event.index,
                         collectLetter(c1.store, event.index))
                 [] event.kind = "portal" ->
                      Do(c1, "openShop", 0, openShop(c1.store))
                 [] OTHER -> c1
         lm == IF event.kind = "portal"
               THEN [LM EXCEPT !.objects = SelectSeq(@, NotPortal)]
               ELSE LM
     IN Finish(c2, lm)
  /\ UNCHANGED <<pendingExpiry, staleExpiry, now, frames>>

RunTicks ==
  \E delta \in TimerDeltas(store) : \E event \in RunEvents(store, LM) :
    RunTick(delta, event)

RunNext ==
  \/ \E diff \in Difficulty : StartGame(diff)
  \/ RestartGame
  \/ RunTicks
  \/ CloseShop

RunSpec == Init /\ [][RunNext]_vars

(* The render loop calls the tick on every frame with the time since the    *)
(* last one (LevelManager.tsx:201), and the shop is left by its button      *)
(* (part_000:87).                                                            *)
FairRunSpec == RunSpec /\ WF_vars(RunTicks) /\ WF_vars(CloseShop)

----------------------------------------------------------------------------
(* Properties.  Entries: the store operations of the last handler.          *)

Entries == {log[i] : i \in 1 .. Len(log)}

Sixth(e) ==
  /\ e.op = "collectLetter"
  /\ ~BagIn(e.arg, e.pre.collectedLetters)
  /\ BagCardinality(e.pre.collectedLetters) = Len(GEMINI_TARGET) - 1

Terminal == {GAME_OVER, VICTORY}

(* C1: an operation other than startGame and restartGame that finds the     *)
(* status GAME_OVER or VICTORY leaves the status as it is.                   *)
TerminalStatusStays ==
  \A e \in Entries :
    e.pre.status \in Terminal /\ e.op \notin {"startGame", "restartGame"} =>
      e.post.status = e.pre.status

(* The timer runs out and, in the same tick, the 6th letter of the word is  *)
(* collected: the level-up puts the status back to PLAYING.                  *)
LetterRevivesAfterTimeout ==
  \E i, j \in 1 .. Len(log) :
    /\ i < j
    /\ log[i].op = "decrementTimer"
    /\ log[i].pre.status = PLAYING /\ log[i].post.status = GAME_OVER
    /\ log[j].op = "collectLetter"
    /\ log[j].pre.status = GAME_OVER /\ log[j].post.status = PLAYING

(* C2: every change of status is one of MENU -> PLAYING, PLAYING -> SHOP,   *)
(* SHOP -> PLAYING, PLAYING -> GAME_OVER, PLAYING -> VICTORY,               *)
(* GAME_OVER -> PLAYING, VICTORY -> PLAYING.                                 *)
StatusEdges ==
  { <<MENU, PLAYING>>, <<PLAYING, SHOP>>, <<SHOP, PLAYING>>, <<PLAYING, GAME_OVER>>,
    <<PLAYING, VICTORY>>, <<GAME_OVER, PLAYING>>, <<VICTORY, PLAYING>> }

StatusFollowsEdges ==
  \A e \in Entries :
    e.post.status # e.pre.status => <<e.pre.status, e.post.status>> \in StatusEdges

(* The portal opens the shop and, in the same tick, a missile takes the     *)
(* last life: SHOP is left to GAME_OVER.                                     *)
ShopLeftToGameOver ==
  \E i, j \in 1 .. Len(log) :
    /\ i < j
    /\ log[i].op = "openShop"
    /\ log[i].pre.status = PLAYING /\ log[i].post.status = SHOP
    /\ log[j].op = "takeDamage"
    /\ log[j].pre.status = SHOP /\ log[j].post.status = GAME_OVER

ItemIds == {item.id : item \in SHOP_ITEMS}

(* The buyItem calls of the last handler: the position of each in the log;  *)
(* the entry after it holds the returned value.                              *)
Purchases == {i \in 1 .. (Len(log) - 1) : log[i].op \in ItemIds}

(* C11: buyItem(type, cost) with score < cost returns false and leaves the  *)
(* whole store as it was, for every item type.                               *)
UnaffordablePurchaseRefused ==
  \A i \in Purchases :
    log[i].pre.score < log[i].arg =>
      /\ log[i + 1].arg = 0
      /\ log[i].post = log[i].pre

(* MAX_LIFE asked for with gems in hand, but not enough of them.             *)
MaxLifeRefusedShortOfGems ==
  \E i \in Purchases :
    /\ log[i].op = "MAX_LIFE"
    /\ log[i].pre.score > 0 /\ log[i].pre.score < log[i].arg
    /\ log[i].pre.status = PLAYING

(* What buyItem(type, cost) makes of s when it is paid for.                  *)
Purchased(s, type, cost) ==
  LET s1 == [s EXCEPT !.score = s.score - cost] IN
  CASE type = "MAX_LIFE" -> [s1 EXCEPT !.maxLives = s.maxLives + 1, !.lives = s.lives + 1]
    [] type = "HEAL" ->
         [s1 EXCEPT !.lives = IF s.lives + 1 < s.maxLives THEN s.lives + 1 ELSE s.maxLives]
    [] type = "DOUBLE_JUMP" -> [s1 EXCEPT !.hasDoubleJump = TRUE]
    [] type = "IMMORTAL" -> [s1 EXCEPT !.hasImmortality = TRUE]

(* C12: buyItem(type, cost) with score >= cost returns true, lowers score   *)
(* by exactly cost (never below 0), applies the type's effect and changes   *)
(* no other field.                                                           *)
AffordablePurchaseApplied ==
  \A i \in Purchases :
    log[i].pre.score >= log[i].arg =>
      /\ log[i + 1].arg = 1
      /\ log[i].post = Purchased(log[i].pre, log[i].op, log[i].arg)
      /\ log[i].post.score >= 0

(* MAX_LIFE bought with exactly its cost: the score goes to 0.               *)
MaxLifeBoughtWithLastGems ==
  \E i \in Purchases :
    /\ log[i].op = "MAX_LIFE"
    /\ log[i].pre.score = log[i].arg
    /\ log[i].post.score = 0
    /\ log[i].post.maxLives = log[i].pre.maxLives + 1

(* C13: a step taken while the status is SHOP (a frame, a purchase, the     *)
(* close button, the ability's expiry) leaves timeLeft, the registry with   *)
(* every object's position and the travelled distance as they are; it       *)
(* leaves the status SHOP or, by closeShop, makes it PLAYING.                *)
ShopFreezesWorld ==
  [][store.status = SHOP =>
       /\ store'.timeLeft = store.timeLeft
       /\ objects' = objects
       /\ distanceTraveled' = distanceTraveled
       /\ store'.status \in {SHOP, PLAYING}
       /\ (\E e \in {log'[i] : i \in 1 .. Len(log')} : e.op = "closeShop")
            => store'.status = PLAYING]_vars

(* A frame rendered in the shop, after the frame that entered it, with      *)
(* objects on the track and time on the timer.                               *)
FramePassedInShop ==
  /\ store.status = SHOP
  /\ frames = 2
  /\ log = <<>>
  /\ objects # <<>>
  /\ store.timeLeft > 0 /\ store.speed > 0

(* The letter's own effect: the index added once, 5 s more on the timer,    *)
(* the speed times 1.05 (to the model's 1/100).                              *)
WithLetter(s, i) ==
  [ s EXCEPT !.collectedLetters = s.collectedLetters (+) SetToBag({i}),
             !.timeLeft = s.timeLeft + 5 * Scale,
             !.speed = (s.speed * 105) \div 100 ]

(* C14: collectLetter(i) with i collected already changes nothing; with i   *)
(* new it adds i once, 5 s to timeLeft and speed * 1.05 (a 6th letter below *)
(* the last level then levels up on top of that: 30 s and 10 units/s more). *)
(* collectedLetters never holds an index twice nor more than 6 indices.     *)
LetterCollectedOnce ==
  /\ \A i \in BagToSet(store.collectedLetters) : CopiesIn(i, store.collectedLetters) = 1
  /\ BagCardinality(store.collectedLetters) <= Len(GEMINI_TARGET)
  /\ \A e \in Entries :
       e.op = "collectLetter" =>
         IF BagIn(e.arg, e.pre.collectedLetters) THEN e.post = e.pre
         ELSE LET s1 == WithLetter(e.pre, e.arg) IN
              IF BagCardinality(s1.collectedLetters) < Len(GEMINI_TARGET)
              THEN e.post = s1
              ELSE IF e.pre.level < MAX_LEVEL
              THEN /\ e.post.timeLeft = s1.timeLeft + 30 * Scale
                   /\ e.post.speed = s1.speed + 10 * Scale
              ELSE /\ e.post.collectedLetters = s1.collectedLetters
                   /\ e.post.timeLeft = s1.timeLeft
                   /\ e.post.speed = s1.speed

(* A letter collected a second time in a running game.                       *)
LetterCollectedAgain ==
  \E e \in Entries :
    /\ e.op = "collectLetter" /\ BagIn(e.arg, e.pre.collectedLetters)
    /\ e.pre.status = PLAYING /\ e.pre.speed > 0

(* The state the spec gives for a run started at difficulty d: speed, time  *)
(* and lanes from its table (EASY 20/90/3, MEDIUM 30/60/3, HARD 45/45/5).   *)
FreshRun(d) ==
  LET row == CASE d = EASY -> <<20, 90, 3>>
               [] d = MEDIUM -> <<30, 60, 3>>
               [] d = HARD -> <<45, 45, 5>>
  IN [ status |-> PLAYING, score |-> 0, lives |-> 3, maxLives |-> 3,
       speed |-> row[1] * Scale, collectedLetters |-> EmptyBag, level |-> 1,
       laneCount |-> row[3], gemsCollected |-> 0, distance |-> 0, difficulty |-> d,
       timeLeft |-> row[2] * Scale, maxTime |-> row[2] * Scale,
       hasDoubleJump |-> FALSE, hasImmortality |-> FALSE,
       isImmortalityActive |-> FALSE ]

(* C15: startGame(d) yields the fresh run of difficulty d, whatever the     *)
(* state before the call.                                                    *)
StartGameResetsAll ==
  \A e \in Entries :
    e.op = "startGame" => e.post = FreshRun(DifficultyOrder[e.arg])

(* startGame called on a lost run that had bought a life slot and has gems  *)
(* left.                                                                     *)
StartGameOverUpgradedRun ==
  \E e \in Entries :
    /\ e.op = "startGame"
    /\ e.pre.status = GAME_OVER /\ e.pre.lives = 0
    /\ e.pre.maxLives > 3 /\ e.pre.score > 0 /\ e.pre.gemsCollected > 0

(* C16: restartGame leaves the store as startGame with the stored           *)
(* difficulty does, and once its handler is done the registry is empty,     *)
(* the travelled distance is 0 and the next letter checkpoint is 150.       *)
RestartIsFullReset ==
  \A i \in 1 .. Len(log) :
    log[i].op = "restartGame" /\ log[i].pre.status \in Terminal =>
      /\ log[i].post = FreshRun(log[i].pre.difficulty)
      /\ \E j \in 1 .. Len(log) :
           /\ log[j].op = "startGame" /\ log[j].pre = log[i].pre
           /\ log[j].post = log[i].post
           /\ DifficultyOrder[log[j].arg] = log[i].pre.difficulty
      /\ store = log[i].post
      /\ objects = <<>>
      /\ distanceTraveled = 0
      /\ nextLetterDistance = 150 * Scale

(* A won run of level 3, with its score and its faster speed, is           *)
(* restarted.                                                                *)
RestartAfterVictory ==
  \E e \in Entries :
    /\ e.op = "restartGame"
    /\ e.pre.status = VICTORY /\ e.pre.level = MAX_LEVEL
    /\ e.pre.score > 0 /\ e.pre.speed > e.post.speed

ImmortalityEnds == store.isImmortalityActive ~> ~store.isImmortalityActive

(* The ability is on while the game is over, and its expiry is the only    *)
(* thing armed.                                                              *)
ImmortalWhileGameOver ==
  /\ store.isImmortalityActive /\ store.status = GAME_OVER
  /\ BagCardinality(pendingExpiry) = 1 /\ staleExpiry = EmptyBag

(* C19: activateImmortality called without the ability, or while it is on, *)
(* changes no state and arms no expiry; a call that switches the ability on *)
(* arms exactly one.                                                         *)
IdleActivationArmsNothing ==
  [][\A i \in 1 .. Len(log') :
       log'[i].op = "activateImmortality" =>
         IF ~log'[i].pre.hasImmortality \/ log'[i].pre.isImmortalityActive
         THEN /\ log'[i].post = log'[i].pre
              /\ store' = store
              /\ pendingExpiry' = pendingExpiry
         ELSE /\ store' = [store EXCEPT !.isImmortalityActive = TRUE]
              /\ BagCardinality(pendingExpiry') = BagCardinality(pendingExpiry) + 1]_vars

(* activateImmortality has been called while the ability was on, its one    *)
(* expiry armed.                                                             *)
ActivatedWhileActive ==
  /\ \E e \in Entries : e.op = "activateImmortality" /\ e.pre.isImmortalityActive
  /\ BagCardinality(pendingExpiry) = 1

(* The registry entries before and after a step that are one entity: ids    *)
(* are handed out again once the largest id in use has left the registry,   *)
(* so the type is compared too.                                              *)
SameEntity(o, p) == o.id = p.id /\ o.type = p.type

(* C20: no step moves an entity of the registry back along z; a tick moves  *)
(* each entity it keeps forward by speed x dt, a MISSILE by 30 x dt more,    *)
(* dt being the frame delta capped at 0.05 s, also when the tick's level-up  *)
(* has put a portal on the track.                                            *)
EntitiesOnlyMoveForward ==
  [][\A i \in 1 .. Len(objects), j \in 1 .. Len(objects') :
       SameEntity(objects[i], objects'[j]) =>
         /\ objects'[j].z >= objects[i].z
         /\ frames' # frames /\ store.status = PLAYING =>
              LET dt == IF now' - now < (5 * Scale) \div 100 THEN now' - now
                        ELSE (5 * Scale) \div 100
              IN objects'[j].z = objects[i].z + (store.speed * dt) \div Scale
                                  + (IF objects[i].type = MISSILE
                                     THEN (30 * Scale * dt) \div Scale ELSE 0)]_vars

(* A tick's level-up has put the portal on the track behind a monster and   *)
(* its missile, which the tick has moved.                                    *)
PortalInjectedBehindMissile ==
  /\ \E e \in Entries : Sixth(e) /\ e.post.level = e.pre.level + 1
  /\ \E i, j, k \in 1 .. Len(objects) :
       /\ objects[i].type = MONSTER /\ objects[j].type = MISSILE
       /\ objects[k].type = SHOP_PORTAL /\ objects[k].z = -(100 * Scale)
       /\ objects[i].id < objects[k].id /\ objects[j].id < objects[k].id

Outcomes == {"player-hit", "collectGem", "collectLetter", "openShop"}

(* C21: in a tick, every interaction outcome belongs to a deactivation, the *)
(* deactivated entities are distinct, each of them was in the registry and  *)
(* active before the tick, and none of them is active after it: an entity   *)
(* that is inactive when a tick starts produces nothing in it.              *)
OneOutcomePerEntity ==
  [][frames' # frames =>
       LET D == {i \in 1 .. Len(log') : log'[i].op = "deactivate"}
           O == {i \in 1 .. Len(log') : log'[i].op \in Outcomes}
       IN /\ Cardinality(O) <= Cardinality(D)
          /\ \A i \in O : \E j \in D :
                /\ i < j
                /\ \A k \in O : ~(i < k /\ k < j)
          /\ \A i, j \in D : log'[i].arg = log'[j].arg => i = j
          /\ \A i \in D :
                /\ \E k \in 1 .. Len(objects) :
                     objects[k].id = log'[i].arg /\ objects[k].active
                /\ \A k \in 1 .. Len(objects') :
                     objects'[k].id = log'[i].arg => ~objects'[k].active]_vars

(* A flower that hit the player in the first tick is still within reach in  *)
(* the second, inactive, and the second tick has deactivated nothing.       *)
SpentFlowerStillInReach ==
  /\ frames = 2 /\ store.status = PLAYING
  /\ \E e \in Entries : e.op = "decrementTimer"
  /\ \A e \in Entries : e.op # "deactivate"
  /\ \E k \in 1 .. Len(objects) :
       /\ objects[k].type = FLOWER /\ ~objects[k].active
       /\ objects[k].x = 0
       /\ objects[k].z > -(2 * Scale) /\ objects[k].z < 2 * Scale

(* C22: the registry holds no entity whose active flag is false.            *)
RegistryHoldsNoInactive == \A k \in 1 .. Len(objects) : objects[k].active

(* The tick has collected a gem and deactivated it, and the gem is in the   *)
(* registry the tick has committed.                                          *)
CollectedGemStaysInRegistry ==
  \E i, j \in 1 .. Len(log) :
    /\ i < j
    /\ log[i].op = "collectGem" /\ log[j].op = "deactivate"
    /\ \E k \in 1 .. Len(objects) :
         /\ objects[k].id = log[j].arg
         /\ objects[k].type = GEM /\ ~objects[k].active

Ids(objs) == {objs[k].id : k \in 1 .. Len(objs)}

(* C23: the entities a tick has created are in the registry as created:     *)
(* active, not deactivated by the tick, a monster's missile 2 units in       *)
(* front of the monster that fired it in this tick, the entities of the      *)
(* batch all at the spawn line, which is taken from the kept entities after  *)
(* their move; and they stand behind the entities the tick has kept.         *)
CreatedEntitiesUntouched ==
  [][frames' # frames /\ store.status = PLAYING =>
       LET Created == {k \in 1 .. Len(objects') :
                         /\ objects'[k].id \notin Ids(objects)
                         /\ objects'[k].type # SHOP_PORTAL}
           Before(k) == {i \in 1 .. Len(objects) : objects[i].id = objects'[k].id}
           Static == {k \in 1 .. Len(objects') :
                        /\ objects'[k].type # MISSILE
                        /\ objects'[k].id \in Ids(objects)}
           Low(S) == CHOOSE z \in S : \A y \in S : z <= y
           furthest == IF Static = {} THEN -(20 * Scale)
                       ELSE Low({objects'[k].z : k \in Static})
           gapped == furthest - (12 * Scale + (store.speed * 3) \div 10)
           line == IF gapped < -(120 * Scale) THEN gapped ELSE -(120 * Scale)
       IN \A k \in Created :
            /\ objects'[k].active /\ ~objects'[k].hasFired
            /\ \A i \in 1 .. Len(log') :
                 log'[i].op = "deactivate" => log'[i].arg # objects'[k].id
            /\ \A j \in 1 .. Len(objects') :
                 objects'[j].id \in Ids(objects) => j < k
            /\ IF objects'[k].type = MISSILE
               THEN \E j \in 1 .. Len(objects') :
                      /\ objects'[j].type = MONSTER /\ objects'[j].hasFired
                      /\ \A i \in Before(j) : ~objects[i].hasFired
                      /\ Before(j) # {}
                      /\ objects'[k].x = objects'[j].x
                      /\ objects'[k].y = (15 * Scale) \div 10
                      /\ objects'[k].z = objects'[j].z + 2 * Scale
               ELSE objects'[k].z = line]_vars

(* A tick in which a monster has fired and a batch has been spawned: the    *)
(* missile and the batch are in the registry behind the monster.            *)
MissileAndBatchCreated ==
  /\ frames = 1
  /\ \E i, j, k \in 1 .. Len(objects) :
       /\ i < j /\ j < k
       /\ objects[i].type = MONSTER /\ objects[i].hasFired
       /\ objects[j].type = MISSILE /\ objects[j].z = objects[i].z + 2 * Scale
       /\ objects[k].type = FLOWER /\ objects[k].z = -(120 * Scale)

LevelUp(e) == e.op = "collectLetter" /\ e.post.level = e.pre.level + 1

FreshPortals ==
  {k \in 1 .. Len(objects) :
     objects[k].type = SHOP_PORTAL /\ objects[k].z = -(100 * Scale)}

(* C24: a handler in which the level has gone up leaves exactly one portal  *)
(* at z = -100 in the registry.                                              *)
LevelUpInjectsPortal ==
  (\E e \in Entries : LevelUp(e)) => Cardinality(FreshPortals) = 1

(* The tick collects the 6th letter, the level goes up, and a missile in    *)
(* the same tick takes the last life: no portal is on the track.            *)
LevelUpThenFatalHit ==
  /\ \E i, j \in 1 .. Len(log) :
       /\ i < j
       /\ LevelUp(log[i])
       /\ log[j].op = "takeDamage" /\ log[j].post.status = GAME_OVER
  /\ store.status = GAME_OVER
  /\ FreshPortals = {}

(* C25: the player's lane index is always within -floor(laneCount/2) ..     *)
(* floor(laneCount/2): the arrow keys stop at the bound and the lane is      *)
(* clamped again when a restart lowers the lane count.                       *)
LaneWithinBounds ==
  /\ player.lane >= -maxLane(store.laneCount)
  /\ player.lane <= maxLane(store.laneCount)

(* a restart from the third level has just lowered the lane count, and the  *)
(* car, which was in an outer lane that no longer exists, is in the new      *)
(* outermost lane                                                            *)
RestartClampedLane ==
  /\ log # <<>>
  /\ log[Len(log)].op = "restartGame"
  /\ log[1].pre.laneCount > store.laneCount
  /\ player.lane = maxLane(store.laneCount)
  /\ maxLane(log[1].pre.laneCount) > player.lane

(* C26: after every start and restart the player state is fully reset: lane *)
(* index 0, height 0, vertical velocity 0, no jumps performed, and no        *)
(* invincibility window still open from a hit of the run before.            *)
StartResetsPlayer ==
  (log # <<>> /\ log[1].op = "startGame") =>
    /\ player.lane = 0
    /\ player.y = 0
    /\ player.velocityY = 0
    /\ player.jumpsPerformed = 0
    /\ ~(player.isInvincible /\ now - player.lastDamageTime <= INVINCIBLE_MS)

(* a restart has put the car on the ground with its jump cleared, away from *)
(* the middle lane                                                           *)
RestartedOffCentre ==
  /\ log # <<>>
  /\ log[1].op = "startGame"
  /\ player.lane # 0
  /\ player.y = 0 /\ player.velocityY = 0 /\ player.jumpsPerformed = 0

(* Store operations other than the two that start a run.                    *)
WithinRun(e) == e.op # "startGame" /\ e.op # "restartGame"

(* The letter bonus, with the level-up increment when the level rises.      *)
LetterSpeedUp(e) ==
  /\ e.op = "collectLetter"
  /\ e.post.speed = e.pre.speed + (e.pre.speed * 5) \div 100
                      + (IF e.post.level > e.pre.level THEN 10 * Scale ELSE 0)

(* C27: speed is never negative and, between one start and the next, never  *)
(* decreases: only the letter bonus and the level-up increment change it.   *)
SpeedNeverDecreases ==
  /\ store.speed >= 0
  /\ \A e \in Entries :
       WithinRun(e) =>
         /\ e.post.speed >= e.pre.speed
         /\ e.post.speed # e.pre.speed => LetterSpeedUp(e)

(* C27, as the store has it: speed is never negative, and between one start *)
(* and the next it changes only by the letter bonus and the level-up        *)
(* increment, which never lower it, and by the end of the run in GAME_OVER  *)
(* (timer expiry or last life), which sets it to 0.                          *)
SpeedDropsOnlyAtGameOver ==
  /\ store.speed >= 0
  /\ \A e \in Entries :
       WithinRun(e) /\ e.post.speed # e.pre.speed =>
         \/ LetterSpeedUp(e) /\ e.post.speed >= e.pre.speed
         \/ /\ e.op \in {"decrementTimer", "takeDamage"}
            /\ e.post.status = GAME_OVER
            /\ e.post.speed = 0

(* the last life has just been lost at speed, and a letter bonus has raised *)
(* the speed of a run before                                                 *)
SpeedZeroedByLastHit ==
  \E e \in Entries :
    /\ e.op = "takeDamage"
    /\ e.pre.status = PLAYING /\ e.post.status = GAME_OVER
    /\ e.pre.speed > DIFFICULTY_SETTINGS(e.pre.difficulty).speed
    /\ e.post.speed = 0

(* C28: level is always in 1..3, laneCount is always odd and at most 9, and *)
(* laneCount equals the difficulty's initial lane count plus 2 x (level-1). *)
LevelAndLanesInStep ==
  /\ store.level \in 1 .. MAX_LEVEL
  /\ store.laneCount % 2 = 1
  /\ store.laneCount <= 9
  /\ store.laneCount = DIFFICULTY_SETTINGS(store.difficulty).lanes + 2 * (store.level - 1)

(* the sixth letter of the second word has just brought a run that started  *)
(* with five lanes to the last level and to nine lanes                       *)
NineLanesReached ==
  /\ store.level = MAX_LEVEL
  /\ store.laneCount = 9
  /\ \E e \in Entries : LevelUp(e) /\ e.pre.laneCount = 7

(* C29: takeDamage, collectGem, collectLetter and openShop are never invoked *)
(* on a store whose status is not PLAYING: once the status has left PLAYING *)
(* during a tick, the tick's remaining entities are not resolved.            *)
OutcomesOnlyWhilePlaying ==
  \A e \in Entries :
    e.op \in {"takeDamage", "collectGem", "collectLetter", "openShop"} =>
      e.pre.status = PLAYING

(* the timer has run out at the start of a tick and a gem has been          *)
(* collected later in the same tick                                          *)
GemCollectedAfterTimeout ==
  \E i, j \in 1 .. Len(log) :
    /\ i < j
    /\ log[i].op = "decrementTimer"
    /\ log[i].pre.status = PLAYING /\ log[i].post.status = GAME_OVER
    /\ log[j].op = "collectGem"
    /\ log[j].pre.status = GAME_OVER
    /\ log[j].post.score > log[j].pre.score

(* C30: whenever status is PLAYING, at the end of a tick and after a shop   *)
(* close, at least one life is left and timeLeft is above 0.                *)
PlayingHasLifeAndTime ==
  store.status = PLAYING => store.lives >= 1 /\ store.timeLeft > 0

(* a tick has ended in PLAYING after its timer step had ended the run: the  *)
(* sixth letter, collected later in the tick, has started the next level    *)
(* with its time bonus                                                       *)
PlayingAgainWithTime ==
  /\ store.status = PLAYING
  /\ store.lives >= 1 /\ store.timeLeft > 0
  /\ \E i, j \in 1 .. Len(log) :
       /\ i < j
       /\ log[i].op = "decrementTimer" /\ log[i].post.timeLeft = 0
       /\ log[i].post.status = GAME_OVER
       /\ LevelUp(log[j])

(* the shop has been closed on a run with one life left                     *)
ShopClosedOnLastLife ==
  /\ store.status = PLAYING
  /\ store.lives = 1
  /\ \E e \in Entries : e.op = "closeShop" /\ e.pre.status = SHOP

(* C31: whenever status is PLAYING or SHOP, collectedLetters holds fewer    *)
(* than 6 indices: a collectLetter that reaches 6 ends, in the same step,   *)
(* in a level-up with the set cleared or in VICTORY.                         *)
LettersBelowTargetInPlay ==
  /\ store.status \in {PLAYING, SHOP} =>
       BagCardinality(store.collectedLetters) < Len(GEMINI_TARGET)
  /\ \A e \in Entries :
       /\ e.op = "collectLetter"
       /\ BagCardinality(e.pre.collectedLetters) = Len(GEMINI_TARGET) - 1
       /\ ~BagIn(e.arg, e.pre.collectedLetters)
       => \/ e.post.status = VICTORY
          \/ /\ e.post.level = e.pre.level + 1
             /\ e.post.collectedLetters = EmptyBag

(* the sixth letter has been collected in a tick and the run plays on, on   *)
(* the next level, with no letter collected                                  *)
SixthLetterClearedSet ==
  /\ store.status = PLAYING
  /\ store.collectedLetters = EmptyBag
  /\ \E e \in Entries :
       /\ e.op = "collectLetter"
       /\ BagCardinality(e.pre.collectedLetters) = Len(GEMINI_TARGET) - 1
       /\ e.post.level = e.pre.level + 1

(* C32: a monster fires in the tick in which it is active, has not fired    *)
(* and stands beyond z = -80 after its move; the tick sets its hasFired and *)
(* creates one missile for it; a monster that has fired or is inactive      *)
(* creates none, and hasFired is never taken back.                           *)
MonsterFiresOnce ==
  [][frames' # frames /\ store.status = PLAYING =>
       LET Monsters == {p \in (1 .. Len(objects)) \X (1 .. Len(objects')) :
                          /\ objects[p[1]].type = MONSTER
                          /\ objects'[p[2]].type = MONSTER
                          /\ objects[p[1]].id = objects'[p[2]].id}
           Fires(p) == /\ objects[p[1]].active /\ ~objects[p[1]].hasFired
                       /\ objects'[p[2]].z > -(80 * Scale)
           Shots == {k \in 1 .. Len(objects') :
                       /\ objects'[k].type = MISSILE
                       /\ objects'[k].id \notin Ids(objects)}
       IN /\ \A p \in Monsters :
               objects'[p[2]].hasFired = (objects[p[1]].hasFired \/ Fires(p))
          /\ Cardinality(Shots) = Cardinality({p \in Monsters : Fires(p)})]_vars

(* two ticks on: the monster fired in the first, has moved on beyond the    *)
(* line in the second, and its one missile is the only one on the track     *)
MonsterFiredOnlyOnce ==
  /\ frames = 2 /\ store.status = PLAYING
  /\ \E k \in 1 .. Len(objects) :
       /\ objects[k].type = MONSTER /\ objects[k].hasFired /\ objects[k].active
       /\ objects[k].z > -(78 * Scale) /\ objects[k].z < -(70 * Scale)
  /\ Cardinality({k \in 1 .. Len(objects) : objects[k].type = MISSILE}) = 1

(* The missiles the tick that has just run has created: each stands 2 units *)
(* in front of the monster that fired it (a missile outruns its monster in  *)
(* every later tick).                                                        *)
JustFired ==
  IF log # <<>> /\ log[1].op = "decrementTimer"
  THEN {k \in 1 .. Len(objects) :
          /\ objects[k].type = MISSILE
          /\ \E j \in 1 .. Len(objects) :
               /\ objects[j].type = MONSTER /\ objects[j].hasFired
               /\ objects[k].z = objects[j].z + 2 * Scale}
  ELSE {}

(* C33: the missile a monster fires is placed in the player's current lane. *)
MissileInPlayersLane ==
  \A k \in JustFired : objects[k].x = player.lane * LANE_WIDTH

(* a monster in the middle lane has fired while the car was one lane to the *)
(* right: the missile is in the monster's lane                               *)
MissileInMonstersLane ==
  /\ player.lane = 1
  /\ \E k \in JustFired :
       /\ objects[k].x = 0
       /\ \E j \in 1 .. Len(objects) :
            /\ objects[j].type = MONSTER /\ objects[j].x = objects[k].x
            /\ objects[k].z = objects[j].z + 2 * Scale

(* C34: every letter is spawned with a target index that is not among the   *)
(* store's collectedLetters at the moment of the spawn.                     *)
SpawnedLetterIsUncollected ==
  \A e \in Entries :
    e.op = "spawnLetter" => ~BagIn(e.arg, e.pre.collectedLetters)

(* a tick has collected a letter and then spawned a letter with the same    *)
(* index                                                                     *)
CollectedLetterSpawnedAgain ==
  \E i, j \in 1 .. Len(log) :
    /\ i < j
    /\ log[i].op = "collectLetter"
    /\ ~BagIn(log[i].arg, log[i].pre.collectedLetters)
    /\ log[j].op = "spawnLetter" /\ log[j].arg = log[i].arg
    /\ BagIn(log[j].arg, log[j].pre.collectedLetters)

(* C35: a portal that reaches the player always triggers the shop.  The     *)
(* portal triggers within 2 units of the player and entities only move      *)
(* forward, so a portal found 2 units or more behind the player has been     *)
(* missed and will be retired at z > 20 with no openShop: no portal of the   *)
(* registry stands there.                                                    *)
PortalNeverPassesPlayer ==
  \A k \in 1 .. Len(objects) :
    objects[k].type = SHOP_PORTAL => objects[k].z < 2 * Scale

(* a tick has moved the portal from in front of the trigger window to       *)
(* behind it and has not opened the shop                                     *)
PortalJumpedTheWindow ==
  /\ store.status = PLAYING
  /\ log # <<>> /\ log[1].op = "decrementTimer"
  /\ \A e \in Entries : e.op # "openShop"
  /\ \E k \in 1 .. Len(objects) :
       /\ objects[k].type = SHOP_PORTAL /\ objects[k].active
       /\ objects[k].z >= 2 * Scale

(* Jump impulses an airborne segment may take. *)
Charges(s) == IF s.hasDoubleJump THEN 2 ELSE 1

(* C36: the jump counter never exceeds 1 without the double jump and 2 with *)
(* it; an upward impulse raises the counter by one, is not given at the     *)
(* maximum, and is given in the air only with the double jump; the counter  *)
(* goes down only to 0, with the car on the ground.                         *)
JumpsWithinCharges ==
  [][/\ player'.jumpsPerformed <= Charges(store')
     /\ (player'.isJumping /\ player'.velocityY > player.velocityY) =>
          /\ player'.velocityY = JUMP_FORCE
          /\ player'.jumpsPerformed = player.jumpsPerformed + 1
          /\ player.jumpsPerformed < Charges(store)
          /\ player.isJumping => store.hasDoubleJump
     /\ player'.jumpsPerformed # player.jumpsPerformed =>
          \/ player'.isJumping /\ player'.velocityY = JUMP_FORCE
          \/ /\ player'.jumpsPerformed = 0 /\ ~player'.isJumping
             /\ player'.y = 0 /\ player'.velocityY = 0]_vars

(* a second impulse has been taken in the air, with the double jump owned,  *)
(* after a first jump had landed                                             *)
SecondImpulseTaken ==
  /\ store.status = PLAYING /\ store.hasDoubleJump
  /\ frames > 0
  /\ player.isJumping /\ player.jumpsPerformed = 2
  /\ player.velocityY = JUMP_FORCE /\ player.y = 0

(* C38: once hasDoubleJump (hasImmortality) is true, no further purchase of *)
(* DOUBLE_JUMP (IMMORTAL) lowers the score.                                  *)
OneTimeItemChargedOnce ==
  \A e \in Entries :
    /\ e.op = "DOUBLE_JUMP" /\ e.pre.hasDoubleJump => e.post.score = e.pre.score
    /\ e.op = "IMMORTAL" /\ e.pre.hasImmortality => e.post.score = e.pre.score

(* the double jump, drawn for this shop visit and bought in it, has been    *)
(* bought again in the same visit and paid for again                         *)
DoubleJumpPaidTwice ==
  /\ store.status = SHOP
  /\ "DOUBLE_JUMP" \in shopItems
  /\ \E e \in Entries :
       /\ e.op = "DOUBLE_JUMP" /\ e.pre.hasDoubleJump
       /\ e.pre.status = SHOP
       /\ e.post.score = e.pre.score - DoubleJumpCost

(* The hazards of the registry that stand at z. *)
HazardsAt(z) ==
  {k \in 1 .. Len(objects) :
     objects[k].z = z /\ objects[k].type \in {FLOWER, MONSTER}}

(* C39: the hazards spawned at one forward coordinate are at most 2, of one *)
(* kind, in pairwise distinct lanes of the track, and leave a lane free.    *)
HazardBatchLeavesLaneFree ==
  \A i \in 1 .. Len(objects) :
    LET H == HazardsAt(objects[i].z)
        xs == {objects[k].x : k \in H}
    IN /\ Cardinality(H) <= 2
       /\ \A k, l \in H : objects[k].type = objects[l].type
       /\ Cardinality(xs) = Cardinality(H)
       /\ xs \subseteq {l * LANE_WIDTH : l \in Lanes(store.laneCount)}
       /\ \E l \in Lanes(store.laneCount) : l * LANE_WIDTH \notin xs

(* two monsters have been spawned side by side in the outermost lanes of a  *)
(* nine-lane track                                                           *)
TwoMonstersAtTheEdges ==
  /\ store.laneCount = 9
  /\ \E k, l \in 1 .. Len(objects) :
       /\ objects[k].type = MONSTER /\ objects[l].type = MONSTER
       /\ objects[k].z = objects[l].z
       /\ objects[k].x = -(4 * LANE_WIDTH) /\ objects[l].x = 4 * LANE_WIDTH

(* C37: every run ends: in every behaviour in which ticks keep coming with  *)
(* a positive delta and an open shop is closed again, a game that is being  *)
(* played or is in the shop reaches GAME_OVER or VICTORY.                    *)
EveryRunEnds ==
  (store.status \in {PLAYING, SHOP}) ~> (store.status \in Terminal)

(* A run that got the time of both level-ups and then ran out of time.      *)
RunTimedOutAtLastLevel ==
  /\ store.status = GAME_OVER /\ store.level = MAX_LEVEL /\ store.timeLeft = 0
  /\ \E e \in Entries :
       e.op = "decrementTimer" /\ e.pre.status = PLAYING /\ e.post.status = GAME_OVER

(* The objects of the registry after a step that were in it before         *)
(* (moved), and those the step has put there.                                *)
OldObjects ==
  LET Old(o) == \E i \in 1 .. Len(objects) : objects[i].id = o.id
  IN SelectSeq(objects', Old)

FreshObjects ==
  LET Fresh(o) == /\ o.type # MISSILE
                  /\ \A i \in 1 .. Len(objects) : objects[i].id # o.id
  IN SelectSeq(objects', Fresh)

LetterTick ==
  /\ store.status = PLAYING /\ store'.status = PLAYING /\ store'.level = store.level
  /\ frames' = frames + 1
  /\ distanceTraveled' >= nextLetterDistance
  /\ tickGateOpen(OldObjects)

(* C40: a tick that finds the letter checkpoint crossed and the spawn gate  *)
(* open (frontier > -120) spawns exactly one LETTER and nothing else, at    *)
(* the spawn distance or beyond, and moves the checkpoint on by 150; and    *)
(* while the status stays PLAYING such a tick comes: a LETTER is eventually *)
(* spawned.                                                                  *)
LetterTickSpawns ==
  [][ LetterTick =>
         /\ Len(FreshObjects) = 1
         /\ FreshObjects[1].type = LETTER
         /\ FreshObjects[1].z <= -SPAWN_DISTANCE
         /\ nextLetterDistance' = nextLetterDistance + BASE_LETTER_INTERVAL
         /\ \E i \in 1 .. Len(log') : log'[i].op = "spawnLetter" ]_vars

(* In the runs followed here the timer has 20 s left and no hazard is in    *)
(* reach, so the status stays PLAYING until the letter is spawned.           *)
LetterComes == (store.status = PLAYING) ~> (LetterSpawned /\ store.status = PLAYING)

LivesWithinMaxLives == 0 <= store.lives /\ store.lives <= store.maxLives

(* A paid HEAL bought with every life slot full: the clamp is what keeps    *)
(* lives at maxLives.                                                        *)
HealAtFullLives ==
  \E e \in Entries :
    /\ e.op = "HEAL"
    /\ e.pre.score >= e.arg
    /\ e.pre.lives = e.pre.maxLives
    /\ e.post.score = e.pre.score - e.arg

(* C4: in every reachable state timeLeft is at least 0 and at most maxTime. *)
TimeLeftWithinMaxTime == 0 <= store.timeLeft /\ store.timeLeft <= store.maxTime

(* A letter collected in a running game with the timer within maxTime       *)
(* lifts it above maxTime.                                                   *)
LetterBonusOverfillsTimer ==
  \E e \in Entries :
    /\ e.op = "collectLetter" /\ e.pre.status = PLAYING
    /\ e.pre.timeLeft <= e.pre.maxTime
    /\ e.post.timeLeft > e.post.maxTime

(* C5: collectLetter adding the 6th distinct letter below the last level    *)
(* empties collectedLetters, raises level by exactly 1, sets laneCount to   *)
(* min(laneCount + 2, 9) and does not enter VICTORY.                         *)
SixthLetterLevelsUp ==
  \A e \in Entries :
    Sixth(e) /\ e.pre.level < MAX_LEVEL =>
      /\ e.post.collectedLetters = EmptyBag
      /\ e.post.level = e.pre.level + 1
      /\ e.post.laneCount = Min(e.pre.laneCount + 2, 9)
      /\ e.post.status # VICTORY

(* The second level-up of a run started on the widest track: the lanes      *)
(* reach the cap.                                                            *)
SixthLetterReachesLaneCap ==
  \E e \in Entries :
    /\ Sixth(e) /\ e.pre.level = MAX_LEVEL - 1 /\ e.pre.status = PLAYING
    /\ e.pre.laneCount + 2 = 9
    /\ e.post.level = MAX_LEVEL

(* C6: collectLetter adding the 6th distinct letter on the last level       *)
(* enters VICTORY and raises score by exactly 5000 + floor(timeLeft) * 100, *)
(* timeLeft being that of the state in which VICTORY is entered; a          *)
(* collectLetter call in VICTORY adds nothing to score.                      *)
VictoryBonusFromTimeAtVictory ==
  \A e \in Entries :
    /\ Sixth(e) /\ e.pre.level = MAX_LEVEL =>
         /\ e.post.status = VICTORY
         /\ e.post.score = e.pre.score + 5000 + Floor(e.post.timeLeft) * 100
    /\ e.op = "collectLetter" /\ e.pre.status = VICTORY =>
         e.post.score = e.pre.score

(* What the code grants: the bonus is computed from the time left before    *)
(* the letter's own +5 s is added.                                           *)
VictoryBonusFromTimeBeforeLetter ==
  \A e \in Entries :
    /\ Sixth(e) /\ e.pre.level = MAX_LEVEL =>
         /\ e.post.status = VICTORY
         /\ e.post.score = e.pre.score + 5000 + Floor(e.pre.timeLeft) * 100
         /\ e.post.timeLeft = e.pre.timeLeft + 5 * Scale
    /\ e.op = "collectLetter" /\ e.pre.status = VICTORY =>
         e.post.score = e.pre.score

VictoryEntered ==
  \E e \in Entries :
    Sixth(e) /\ e.pre.level = MAX_LEVEL /\ e.pre.status = PLAYING /\ e.post.status = VICTORY

(* C7: a player-hit event arriving while the ability is inactive and the    *)
(* invincibility flag is down lowers lives by exactly 1; with more than one *)
(* life before it, status and speed stay as they were; when lives reaches 0 *)
(* status becomes GAME_OVER and speed 0.                                     *)
Unprotected(e) == e.op = "player-hit" /\ ~e.inv /\ ~e.pre.isImmortalityActive

DamageTakesOneLife ==
  \A e \in Entries :
    Unprotected(e) =>
      /\ e.post.lives = e.pre.lives - 1
      /\ e.pre.lives > 1 =>
           /\ e.post.status = e.pre.status
           /\ e.post.speed = e.pre.speed
      /\ e.post.lives = 0 => e.post.status = GAME_OVER /\ e.post.speed = 0

(* The last life taken from a running game.                                  *)
LastLifeTaken ==
  \E e \in Entries :
    /\ Unprotected(e)
    /\ e.pre.lives = 1 /\ e.pre.status = PLAYING /\ e.pre.speed > 0
    /\ e.post.status = GAME_OVER

(* C8: a player-hit event arriving no more than 1500 ms after a damage      *)
(* event was applied leaves lives and status as they were.  (The clock      *)
(* starts later than 1500 ms, so a time since the last damage of at most    *)
(* 1500 ms means that a damage event has been applied.)                      *)
HitInsideWindowIgnored ==
  \A e \in Entries :
    e.op = "player-hit" /\ 0 <= e.since /\ e.since <= INVINCIBLE_MS =>
      e.post.lives = e.pre.lives /\ e.post.status = e.pre.status

(* Two hazards reach the player in one tick: the first takes a life, the    *)
(* second arrives 0 ms later.                                                *)
SecondHitInSameTick ==
  \E i, j \in 1 .. Len(log) :
    /\ i < j
    /\ log[i].op = "player-hit" /\ log[i].post.lives = log[i].pre.lives - 1
    /\ log[j].op = "player-hit" /\ log[j].since = 0
    /\ log[j].pre.lives > 0

(* C9: a takeDamage call made while isImmortalityActive is true leaves      *)
(* lives, status and speed as they were.                                     *)
ImmortalityShieldsDamage ==
  \A e \in Entries :
    e.op = "takeDamage" /\ e.pre.isImmortalityActive =>
      /\ e.post.lives = e.pre.lives
      /\ e.post.status = e.pre.status
      /\ e.post.speed = e.pre.speed

(* A shielded hit on the last life of a running game.                        *)
ShieldedHitOnLastLife ==
  \E e \in Entries :
    /\ e.op = "takeDamage" /\ e.pre.isImmortalityActive
    /\ e.pre.lives = 1 /\ e.pre.status = PLAYING /\ e.pre.speed > 0

(* C10: decrementTimer(delta) in PLAYING sets timeLeft to timeLeft - delta  *)
(* when that is positive, else sets timeLeft to 0, status to GAME_OVER and  *)
(* speed to 0 whatever lives is; outside PLAYING it changes nothing.        *)
TimerExpiryContract ==
  \A e \in Entries :
    e.op = "decrementTimer" =>
      IF e.pre.status # PLAYING THEN e.post = e.pre
      ELSE IF e.pre.timeLeft - e.arg > 0
      THEN e.post = [e.pre EXCEPT !.timeLeft = e.pre.timeLeft - e.arg]
      ELSE e.post = [e.pre EXCEPT !.timeLeft = 0, !.status = GAME_OVER, !.speed = 0]

(* The timer landing exactly on 0 with lives to spare.                       *)
TimerLandsOnZero ==
  \E e \in Entries :
    /\ e.op = "decrementTimer" /\ e.pre.status = PLAYING
    /\ e.pre.timeLeft = e.arg /\ e.pre.lives = 2 /\ e.pre.speed > 0
    /\ e.post.status = GAME_OVER

====
